---------------------------- MODULE Spec2Model ----------------------------
(***************************************************************************)
(* Task orchestration and generation-contract subsystem of the Nano Banana *)
(* Editor: packages/shared (contract validators), packages/engine (the     *)
(* Gemini executor) and packages/server (task map, SSE fan-out, HTTP       *)
(* routes).                                                                *)
(*                                                                         *)
(* Representation.  A JavaScript string is a sequence of lexemes (each a   *)
(* TLA+ string); " " is the whitespace lexeme.  A JavaScript value is a    *)
(* tagged record [t |-> tag, v |-> payload].  Weights are fixed-point      *)
(* integers in units of 1/Scale.                                           *)
(***************************************************************************)
EXTENDS Integers, Sequences, FiniteSets, TLC

(***************************************************************************)
(* JavaScript values                                                       *)
(***************************************************************************)
JUndef == [t |-> "undefined", v |-> 0]
JNull == [t |-> "null", v |-> 0]
JNaN == [t |-> "nan", v |-> 0]
\* Infinity (sign 1) and -Infinity (sign -1)
JInf(sign) == [t |-> "infinity", v |-> sign]
JStr(s) == [t |-> "string", v |-> s]
JNum(n) == [t |-> "number", v |-> n]
JBool(b) == [t |-> "boolean", v |-> b]
JArr(items) == [t |-> "array", v |-> items]
JObj(fields) == [t |-> "object", v |-> fields]

\* value.field of a JavaScript object: undefined when the property is absent
Get(o, f) == IF f \in DOMAIN o.v THEN o.v[f] ELSE JUndef

\* typeof value
TypeOf(x) ==
  CASE x.t \in {"null", "array", "object"} -> "object"
    [] x.t \in {"nan", "infinity"} -> "number"
    [] OTHER -> x.t

\* results of the functions that may throw
Ok(v) == [t |-> "ok", v |-> v]
Err(kind, code, message) ==
  [t |-> "err", v |-> [kind |-> kind, code |-> code, message |-> message]]
IsOk(r) == r.t = "ok"

(***************************************************************************)
(* Strings                                                                 *)
(***************************************************************************)
WS == {" "}

RECURSIVE TrimStart(_)
TrimStart(s) ==
  IF s # <<>> /\ Head(s) \in WS THEN TrimStart(Tail(s)) ELSE s

RECURSIVE TrimEnd(_)
TrimEnd(s) ==
  IF s # <<>> /\ s[Len(s)] \in WS THEN TrimEnd(SubSeq(s, 1, Len(s) - 1)) ELSE s

\* String.prototype.trim
Trim(s) == TrimEnd(TrimStart(s))

\* String.prototype.toUpperCase on one lexeme
UpperLex(x) ==
  CASE x \in {"face", "Face"} -> "FACE"
    [] x \in {"style", "Style"} -> "STYLE"
    [] x \in {"material"} -> "MATERIAL"
    [] x \in {"component"} -> "COMPONENT"
    [] x \in {"queued"} -> "QUEUED"
    [] x \in {"processing"} -> "PROCESSING"
    [] x \in {"success"} -> "SUCCESS"
    [] x \in {"failed"} -> "FAILED"
    [] x \in {"bogus"} -> "BOGUS"
    [] x \in {"[source", "[Source"} -> "[SOURCE"
    [] x \in {"[reference]", "[Reference]"} -> "[REFERENCE]"
    [] OTHER -> x

ToUpperCase(s) == [i \in 1..Len(s) |-> UpperLex(s[i])]

(***************************************************************************)
(* Numbers: fixed point, Scale units = 1                                   *)
(***************************************************************************)
Scale == 100000

\* the numeric lexemes and the number each denotes
NumLex ==
  [x \in {"0", "0.5", "0.75", "0.9", "1", "1.5", "-0.1", "0.12345", "0.65"} |->
     CASE x = "0" -> 0
       [] x = "0.5" -> 50000
       [] x = "0.75" -> 75000
       [] x = "0.9" -> 90000
       [] x = "1" -> 100000
       [] x = "1.5" -> 150000
       [] x = "-0.1" -> -10000
       [] x = "0.12345" -> 12345
       [] x = "0.65" -> 65000]

\* Number(string)
StringToNumber(s) ==
  LET tr == Trim(s) IN
    IF tr = <<>> THEN JNum(0)
    ELSE IF Len(tr) = 1 /\ tr[1] \in DOMAIN NumLex THEN JNum(NumLex[tr[1]])
    ELSE IF tr = <<"Infinity">> THEN JInf(1)
    ELSE IF tr = <<"-Infinity">> THEN JInf(-1)
    ELSE JNaN

\* Number(value)
RECURSIVE ToNumber(_)
ToNumber(x) ==
  CASE x.t = "number" -> x
    [] x.t \in {"nan", "infinity"} -> x
    [] x.t = "undefined" -> JNaN
    [] x.t = "null" -> JNum(0)
    [] x.t = "boolean" -> IF x.v THEN JNum(Scale) ELSE JNum(0)
    [] x.t = "string" -> StringToNumber(x.v)
    [] x.t = "array" ->
         IF x.v = <<>> THEN JNum(0)
         ELSE IF Len(x.v) = 1 /\ x.v[1].t \in {"number", "string", "nan", "infinity"}
              THEN ToNumber(x.v[1])
              ELSE JNaN
    [] OTHER -> JNaN

\* a rounding that always moves up to the next multiple of 1/10000
ToFixed4Up(n) == ((n \div 10) + 1) * 10

\* Number(n.toFixed(4)): nearest multiple of 1/10000, the larger one on a tie
ToFixed4(n) == ((n + 5) \div 10) * 10

(***************************************************************************)
(* packages/shared/src/index.js                                            *)
(***************************************************************************)
FEATURE_TYPES == <<"FACE", "STYLE", "MATERIAL", "COMPONENT">>
TASK_STATUSES == <<"QUEUED", "PROCESSING", "SUCCESS", "FAILED">>

Includes(list, s) == \E i \in 1..Len(list) : s = <<list[i]>>

isRecord(x) == x.t = "object"

ensureString(value, field, allowEmpty) ==
  IF value.t # "string"
    THEN Err("ContractValidationError", "INVALID_STRING", <<field, "must be a string">>)
  ELSE IF ~allowEmpty /\ Trim(value.v) = <<>>
    THEN Err("ContractValidationError", "EMPTY_STRING", <<field, "must not be empty">>)
  ELSE Ok(Trim(value.v))

\* ensureWeight once Number(value) is known
WeightOf(parsed, field) ==
  IF parsed.t # "number"
    THEN Err("ContractValidationError", "INVALID_WEIGHT", <<field, "must be a valid number">>)
  ELSE IF parsed.v < 0 \/ parsed.v > Scale
    THEN Err("ContractValidationError", "WEIGHT_OUT_OF_RANGE", <<field, "must be in range [0, 1]">>)
  ELSE Ok(ToFixed4(parsed.v))

ensureWeight(value, field) ==
  WeightOf(IF value.t = "number" THEN value ELSE ToNumber(value), field)

\* the object validateReference returns, from the results of its two checks
ReferenceOf(imageRef, weight) ==
  IF ~IsOk(imageRef) THEN imageRef
  ELSE IF ~IsOk(weight) THEN weight
  ELSE Ok([imageRef |-> imageRef.v, weight |-> weight.v])

validateReference(value) ==
  IF ~isRecord(value)
    THEN Err("ContractValidationError", "INVALID_REFERENCE", <<"reference must be an object">>)
  ELSE ReferenceOf(ensureString(Get(value, "imageRef"), "reference.imageRef", FALSE),
                   ensureWeight(Get(value, "weight"), "reference.weight"))

\* `sources[${index}]${suffix}`
SourceField(index, suffix) == "sources[" \o ToString(index) \o "]" \o suffix

\* a validator that stores the featureType as it was written
SourceOfAsWritten(index, ft, imageRef, weight) ==
  IF ~IsOk(ft) THEN ft
  ELSE IF ~Includes(FEATURE_TYPES, ToUpperCase(ft.v))
    THEN Err("ContractValidationError", "INVALID_FEATURE_TYPE",
             <<SourceField(index, ".featureType"),
               "must be one of FACE, STYLE, MATERIAL, COMPONENT">>)
  ELSE IF ~IsOk(imageRef) THEN imageRef
  ELSE IF ~IsOk(weight) THEN weight
  ELSE Ok([imageRef |-> imageRef.v,
           featureType |-> ft.v,
           weight |-> weight.v])

\* the object validateSource returns for source index, from the results of its
\* checks in the order the code makes them
SourceOf(index, ft, imageRef, weight) ==
  IF ~IsOk(ft) THEN ft
  ELSE IF ~Includes(FEATURE_TYPES, ToUpperCase(ft.v))
    THEN Err("ContractValidationError", "INVALID_FEATURE_TYPE",
             <<SourceField(index, ".featureType"),
               "must be one of FACE, STYLE, MATERIAL, COMPONENT">>)
  ELSE IF ~IsOk(imageRef) THEN imageRef
  ELSE IF ~IsOk(weight) THEN weight
  ELSE Ok([imageRef |-> imageRef.v,
           featureType |-> ToUpperCase(ft.v),
           weight |-> weight.v])

validateSource(value, index) ==
  IF ~isRecord(value)
    THEN Err("ContractValidationError", "INVALID_SOURCE",
             <<SourceField(index, ""), "must be an object">>)
  ELSE SourceOf(index,
                ensureString(Get(value, "featureType"), SourceField(index, ".featureType"), FALSE),
                ensureString(Get(value, "imageRef"), SourceField(index, ".imageRef"), FALSE),
                ensureWeight(Get(value, "weight"), SourceField(index, ".weight")))

\* input.sources.map(validateSource) from item index on: the first throw ends
\* the map
RECURSIVE MapSources(_, _, _)
MapFrom(r, items, index, acc) ==
  IF IsOk(r) THEN MapSources(items, index + 1, Append(acc, r.v)) ELSE r

MapSources(items, index, acc) ==
  IF index > Len(items) THEN Ok(acc)
  ELSE MapFrom(validateSource(items[index], index - 1), items, index, acc)

\* input.sources checked and mapped
SourcesOf(srcs) ==
  IF srcs.t # "array" \/ srcs.v = <<>>
    THEN Err("ContractValidationError", "INVALID_SOURCES", <<"sources must be a non-empty array">>)
  ELSE MapSources(srcs.v, 1, <<>>)

\* a validator that reports on the sources before the reference
ContractOfSourcesFirst(taskId, prompt, negativePrompt, reference, sources) ==
  IF ~IsOk(taskId) THEN taskId
  ELSE IF ~IsOk(prompt) THEN prompt
  ELSE IF ~IsOk(negativePrompt) THEN negativePrompt
  ELSE IF ~IsOk(sources) THEN sources
  ELSE IF ~IsOk(reference) THEN reference
  ELSE Ok([taskId |-> taskId.v,
           prompt |-> prompt.v,
           negativePrompt |-> negativePrompt.v,
           reference |-> reference.v,
           sources |-> sources.v])

\* the contract validateGenerationContract returns, from the results of its
\* checks in the order the code makes them
ContractOf(taskId, prompt, negativePrompt, reference, sources) ==
  IF ~IsOk(taskId) THEN taskId
  ELSE IF ~IsOk(prompt) THEN prompt
  ELSE IF ~IsOk(negativePrompt) THEN negativePrompt
  ELSE IF ~IsOk(reference) THEN reference
  ELSE IF ~IsOk(sources) THEN sources
  ELSE Ok([taskId |-> taskId.v,
           prompt |-> prompt.v,
           negativePrompt |-> negativePrompt.v,
           reference |-> reference.v,
           sources |-> sources.v])

validateGenerationContract(input) ==
  IF ~isRecord(input)
    THEN Err("ContractValidationError", "INVALID_CONTRACT", <<"Generation Contract must be an object">>)
  ELSE ContractOf(ensureString(Get(input, "taskId"), "taskId", FALSE),
                  ensureString(Get(input, "prompt"), "prompt", FALSE),
                  IF Get(input, "negativePrompt") = JUndef THEN Ok(<<>>)
                  ELSE ensureString(Get(input, "negativePrompt"), "negativePrompt", TRUE),
                  validateReference(Get(input, "reference")),
                  SourcesOf(Get(input, "sources")))

\* the ISO string of the instant n (new Date().toISOString())
JDate(n) == [t |-> "isodate", v |-> n]

\* a projection that keeps a blank string as the empty string
TrimmedOrEmpty(x) ==
  IF x.t = "string" THEN JStr(Trim(x.v)) ELSE JNull

\* typeof x === "string" && x.trim().length > 0 ? x.trim() : null
TrimmedOrNull(x) ==
  IF x.t = "string" /\ Trim(x.v) # <<>> THEN JStr(Trim(x.v)) ELSE JNull

\* (item) => typeof item === "string" && item.trim().length > 0
NonBlankString(x) == x.t = "string" /\ Trim(x.v) # <<>>

\* the object createStatusResponse returns, from the results of its two checks
StatusOfResponse(taskId, status, input, now) ==
  IF ~IsOk(taskId) THEN taskId
  ELSE IF ~IsOk(status) THEN status
  ELSE IF ~Includes(TASK_STATUSES, ToUpperCase(status.v))
    THEN Err("ContractValidationError", "INVALID_STATUS_VALUE",
             <<"status must be one of QUEUED, PROCESSING, SUCCESS, FAILED">>)
  ELSE Ok([taskId |-> JStr(taskId.v),
           status |-> JStr(ToUpperCase(status.v)),
           outputUrl |-> TrimmedOrNull(Get(input, "outputUrl")),
           errorCode |-> TrimmedOrNull(Get(input, "errorCode")),
           message |-> TrimmedOrNull(Get(input, "message")),
           warnings |-> IF Get(input, "warnings").t = "array"
                          THEN JArr(SelectSeq(Get(input, "warnings").v, NonBlankString))
                          ELSE JArr(<<>>),
           updatedAt |-> IF Get(input, "updatedAt").t = "isodate"
                              \/ (Get(input, "updatedAt").t = "string"
                                    /\ Get(input, "updatedAt").v # <<>>)
                           THEN Get(input, "updatedAt")
                           ELSE JDate(now)])

createStatusResponse(input, now) ==
  IF ~isRecord(input)
    THEN Err("ContractValidationError", "INVALID_STATUS", <<"Status Response must be an object">>)
  ELSE StatusOfResponse(ensureString(Get(input, "taskId"), "taskId", FALSE),
                        ensureString(Get(input, "status"), "status", FALSE),
                        input, now)

Digits == {"0", "1", "2", "3", "4", "5", "6", "7", "8", "9"}
DigitVal(d) ==
  CASE d = "0" -> 0 [] d = "1" -> 1 [] d = "2" -> 2 [] d = "3" -> 3 [] d = "4" -> 4
    [] d = "5" -> 5 [] d = "6" -> 6 [] d = "7" -> 7 [] d = "8" -> 8 [] d = "9" -> 9

Range(s) == {s[i] : i \in 1..Len(s)}

\* the position after the run of lexemes of set S that starts at i
RECURSIVE SkipRun(_, _, _)
SkipRun(s, i, S) == IF i <= Len(s) /\ s[i] \in S THEN SkipRun(s, i + 1, S) ELSE i

\* Number(match[1]) for the digit lexemes s[i..j-1]
RECURSIVE DigitsValue(_, _, _, _)
DigitsValue(s, i, j, acc) ==
  IF i >= j THEN acc ELSE DigitsValue(s, i + 1, j, acc * 10 + DigitVal(s[i]))

\* matchAll(/\[Source\s+(\d+)\]/gi) from position i on: the captured numbers
RECURSIVE SourceMatches(_, _)
SourceMatches(s, i) ==
  IF i > Len(s) THEN <<>>
  ELSE IF UpperLex(s[i]) = "[SOURCE"
    THEN LET a == SkipRun(s, i + 1, WS)
             b == SkipRun(s, a, Digits)
         IN IF a > i + 1 /\ b > a /\ b <= Len(s) /\ s[b] = "]"
              THEN <<DigitsValue(s, a, b, 0)>> \o SourceMatches(s, b + 1)
              ELSE SourceMatches(s, i + 1)
  ELSE SourceMatches(s, i + 1)

\* [...new Set(list)]: first occurrences, in order
RECURSIVE Dedup(_)
Dedup(list) ==
  IF list = <<>> THEN <<>>
  ELSE LET init == Dedup(SubSeq(list, 1, Len(list) - 1))
           x == list[Len(list)]
       IN IF \E i \in 1..Len(init) : init[i] = x THEN init ELSE Append(init, x)

\* the result of extractPromptIndexing for the prompt ensureString returned
PromptIndexing(normalizedPrompt, sourceIndexes, sourceCount) ==
  LET OutOf(index) == index < 0 \/ index >= sourceCount
  IN [usesReference |->
        \E i \in 1..Len(normalizedPrompt) : UpperLex(normalizedPrompt[i]) = "[REFERENCE]",
      sourceIndexes |-> Dedup(sourceIndexes),
      outOfRange |-> Dedup(SelectSeq(sourceIndexes, OutOf))]

IndexingOf(normalizedPrompt, sourceCount) ==
  IF ~IsOk(normalizedPrompt) THEN normalizedPrompt
  ELSE Ok(PromptIndexing(normalizedPrompt.v, SourceMatches(normalizedPrompt.v, 1), sourceCount))

extractPromptIndexing(prompt, sourceCount) ==
  IndexingOf(ensureString(prompt, "prompt", TRUE), sourceCount)

\* error: [kind, code, message], kind the class of the thrown value
serializeError(error) ==
  IF error.kind = "ContractValidationError"
    THEN [code |-> error.code, message |-> error.message]
  ELSE IF error.kind = "Error"
    THEN [code |-> "UNEXPECTED_ERROR", message |-> error.message]
  ELSE [code |-> "UNKNOWN_ERROR", message |-> error.message]

(***************************************************************************)
(* packages/engine/src/index.js                                            *)
(***************************************************************************)
DEFAULT_MODEL == <<"gemini-3-pro-image-preview">>

\* a thrown plain Error, and one with an own `code` property
PlainError(message) == Err("Error", "", message)
CodedError(code, message) == Err("Error", code, message)

\* JavaScript truthiness
Truthy(x) ==
  CASE x.t \in {"undefined", "null", "nan"} -> FALSE
    [] x.t = "number" -> x.v # 0
    [] x.t = "string" -> x.v # <<>>
    [] x.t = "boolean" -> x.v
    [] OTHER -> TRUE

\* a || b
OrElse(a, b) == IF Truthy(a) THEN a ELSE b

\* x?.f
OptGet(x, f) == IF x.t = "object" THEN Get(x, f) ELSE JUndef

\* x?.[0]
OptFirst(x) == IF x.t = "array" /\ x.v # <<>> THEN x.v[1] ELSE JUndef

HttpSchemes == {"http://", "https://", "HTTP://", "Https://"}

\* /^data:([^;,]+);base64,(.+)$/ : data:, one or more lexemes free of ; and , ,
\* then ;base64, and a non-empty payload
parseDataUrl(dataUrl) ==
  LET Stop == {";base64,", ";", ","}
      j == CHOOSE i \in 2..(Len(dataUrl) + 1) :
             /\ i = Len(dataUrl) + 1 \/ dataUrl[i] \in Stop
             /\ \A h \in 2..(i - 1) : dataUrl[h] \notin Stop
  IN IF /\ dataUrl # <<>>
        /\ Head(dataUrl) = "data:"
        /\ j > 2
        /\ j < Len(dataUrl)
        /\ dataUrl[j] = ";base64,"
       THEN Ok([mimeType |-> SubSeq(dataUrl, 2, j - 1),
                data |-> SubSeq(dataUrl, j + 1, Len(dataUrl))])
       ELSE PlainError(<<"Invalid data URL imageRef. Expected data:<mime>;base64,<data>.">>)

IsDataRef(imageRef) == imageRef # <<>> /\ Head(imageRef) = "data:"
IsHttpRef(imageRef) == imageRef # <<>> /\ Head(imageRef) \in HttpSchemes

\* mimeType.split(";")[0]
BeforeSemicolon(s) == SubSeq(s, 1, SkipRun(s, 1, {x \in Range(s) : x # ";"}) - 1)

\* the outcomes of fetch(imageRef): a network failure, a non-2xx response, or a
\* 2xx response with its content-type header (JNull when absent)
FetchOutcomes ==
  { [kind |-> "notok", contentType |-> JNull],
    [kind |-> "ok", contentType |-> JStr(<<"image/jpeg", ";", " ", "charset=binary">>)] }

\* the result of imageRefToInlineData once its fetch (if any) answered
imageRefToInlineData(imageRef, fetched) ==
  IF IsDataRef(imageRef) THEN parseDataUrl(imageRef)
  ELSE IF IsHttpRef(imageRef) THEN
    IF fetched.kind = "throw" THEN Err("Error", "", <<"fetch failed">>)
    ELSE IF fetched.kind = "notok"
      THEN PlainError(<<"Failed to download imageRef:">> \o imageRef)
    ELSE Ok([mimeType |-> BeforeSemicolon(OrElse(fetched.contentType, JStr(<<"image/png">>)).v),
             data |-> <<"base64-of-body">>])
  ELSE PlainError(<<"Unsupported imageRef format. Use data URL or http(s) URL.">>)

\* String.prototype.includes on a MIME lexeme sequence
MimeIncludes(mimeType, what) ==
  \E i \in 1..Len(mimeType) :
    \/ what = "jpeg" /\ mimeType[i] \in {"image/jpeg", "jpeg"}
    \/ what = "jpg" /\ mimeType[i] \in {"image/jpg", "jpg"}
    \/ what = "webp" /\ mimeType[i] \in {"image/webp", "webp"}

PartHasImage(part) ==
  Truthy(OrElse(OptGet(OptGet(part, "inlineData"), "data"),
                OptGet(OptGet(part, "inline_data"), "data")))

PartHasText(part) == OptGet(part, "text").t = "string"

\* Array.prototype.find: the first item passing, JUndef when none
Find(items, Test(_)) ==
  LET hits == SelectSeq(items, Test) IN IF hits = <<>> THEN JUndef ELSE Head(hits)

\* the object extractOutputImage returns for the image part's data and type
OutputImage(mimeType, base64Data) ==
  IF ~Truthy(base64Data)
    THEN PlainError(<<"Gemini image part missing base64 data.">>)
  ELSE IF mimeType.t # "string" \/ base64Data.t # "string"
    THEN Err("Error", "", <<"TypeError">>)
  ELSE Ok([outputBuffer |-> base64Data.v,
           outputMimeType |-> mimeType.v,
           outputExtension |->
             IF MimeIncludes(mimeType.v, "jpeg") \/ MimeIncludes(mimeType.v, "jpg")
               THEN "jpg"
             ELSE IF MimeIncludes(mimeType.v, "webp") THEN "webp"
             ELSE "png"])

\* imagePart.inlineData || imagePart.inline_data, then its type and data
InlineImage(inlineData) ==
  OutputImage(OrElse(OrElse(OptGet(inlineData, "mimeType"), OptGet(inlineData, "mime_type")),
                     JStr(<<"image/png">>)),
              OptGet(inlineData, "data"))

\* extractOutputImage once the image part and the text part are found
OutputOf(imagePart, textPart) ==
  IF ~Truthy(imagePart) THEN
    IF Truthy(OptGet(textPart, "text"))
      THEN PlainError(<<"Gemini returned text only:">> \o OptGet(textPart, "text").v)
      ELSE PlainError(<<"Gemini returned no image part.">>)
  ELSE InlineImage(OrElse(OptGet(imagePart, "inlineData"), OptGet(imagePart, "inline_data")))

\* extractOutputImage once candidates[0].content.parts is read
OutputOfParts(parts) ==
  IF parts.t # "array" \/ parts.v = <<>>
    THEN PlainError(<<"Gemini returned no candidates/content parts.">>)
  ELSE OutputOf(Find(parts.v, PartHasImage), Find(parts.v, PartHasText))

extractOutputImage(resultJson) ==
  OutputOfParts(OptGet(OptGet(OptFirst(OptGet(resultJson, "candidates")), "content"), "parts"))

buildWorkflowGraph(contract, model) ==
  [name |-> "MEIE-DualTrack-Gemini",
   model |-> model,
   promptIndexing |-> extractPromptIndexing(JStr(contract.prompt), Len(contract.sources)).v,
   nodes |-> <<[role |-> "REFERENCE", weight |-> contract.reference.weight,
                sources |-> <<>>, prompt |-> <<>>],
               [role |-> "TRACK_B", weight |-> 0,
                sources |-> [i \in 1..Len(contract.sources) |->
                               [id |-> i - 1,
                                featureType |-> contract.sources[i].featureType,
                                weight |-> contract.sources[i].weight]],
                prompt |-> <<>>],
               [role |-> "MERGE", weight |-> 0, sources |-> <<>>,
                prompt |-> contract.prompt]>>]

\* the warnings runDualTrackGeneration derives from the graph
GraphWarnings(workflowGraph) ==
  IF workflowGraph.promptIndexing.outOfRange # <<>>
    THEN <<JStr(<<"Prompt references out-of-range source indexes:">>
                \o [i \in 1..Len(workflowGraph.promptIndexing.outOfRange) |->
                      ToString(workflowGraph.promptIndexing.outOfRange[i])])>>
    ELSE <<>>

(***************************************************************************)
(* packages/server/src/index.js: state                                     *)
(***************************************************************************)
MaxCreates == 2      \* accepted POST /api/tasks over the life of the process
MaxTime == 2         \* hours of wall-clock time observed
MaxLoad == 3         \* accepted POSTs plus SSE connections opened
RetentionHours == 1  \* the eviction delay, 60 * 60 * 1000 ms

\* the SSE connections, numbered in the order they are opened
Clients == {1, 2}

VARIABLES
  tasks,       \* the Map tasks: taskId -> task record
  sseClients,  \* the Map sseClients: taskId -> set of subscriber records
  timers,      \* pending eviction timers: [taskId, due]
  runs,        \* the runTask invocations, in creation order
  conn,        \* each SSE connection: "new", "open" or "closed", and its taskId
  sent,        \* the status events the step taken last wrote to each SSE connection
  now,         \* wall-clock time, in hours
  apiKey,      \* whether process.env.GEMINI_API_KEY is set
  last,        \* the step taken last: its reply, the records it stored, how a run ended
  call         \* a library function applied on its own: its name, argument and result

vars == <<tasks, sseClients, timers, runs, conn, sent, now, apiKey, last, call>>

\* no library function applied on its own
NoCall == [fn |-> "", arg |-> JUndef, res |-> JUndef]

\* a step that writes to no SSE connection
Quiet == [c \in Clients |-> <<>>]

Merge(prev, patch) ==
  [f \in DOMAIN prev \cup DOMAIN patch |-> IF f \in DOMAIN patch THEN patch[f] ELSE prev[f]]

\* Map.prototype.set
MapSet(m, k, v) == [x \in DOMAIN m \cup {k} |-> IF x = k THEN v ELSE m[x]]
\* Map.prototype.delete
MapDelete(m, k) == [x \in DOMAIN m \ {k} |-> m[x]]

StatusOf(task) == task.status.v[1]

toTaskView(task, clock) ==
  Merge(createStatusResponse(JObj(task), clock).v,
        [workflowGraph |-> task.workflowGraph, progress |-> task.progress])

createTaskRecord(contract, clock) ==
  [taskId |-> JStr(contract.taskId),
   contract |-> contract,
   status |-> JStr(<<"QUEUED">>),
   outputUrl |-> JNull,
   errorCode |-> JNull,
   message |-> JNull,
   warnings |-> JArr(<<>>),
   workflowGraph |-> JNull,
   progress |-> JNull,
   updatedAt |-> JDate(clock)]

\* W is what a synchronous stretch of a run works on: the task map, the SSE
\* connections' streams, the run's own record, and two notes for the observer:
\* log, the records the stretch stored with tasks.set, and ended, how the run
\* ended if it did

\* a broadcast that writes to nobody
broadcastToNobody(box, taskId, payload) == box

\* a broadcast that reaches the subscribers of every task
broadcastToEveryone(box, taskId, payload) ==
  [c \in Clients |->
     IF \E t \in DOMAIN sseClients : c \in sseClients[t] THEN Append(box[c], payload)
     ELSE box[c]]

\* writeSseEvent to every subscriber of taskId
broadcastTaskEvent(box, taskId, payload) ==
  IF taskId \notin DOMAIN sseClients \/ sseClients[taskId] = {}
    THEN box
    ELSE [c \in Clients |->
            IF c \in sseClients[taskId] THEN Append(box[c], payload) ELSE box[c]]

\* what the observer notes of a record stored with tasks.set: who stored it (by),
\* under which key, its status and its projection at that moment
Stored(by, taskId, record, clock) ==
  [by |-> by, taskId |-> taskId, status |-> StatusOf(record),
   view |-> toTaskView(record, clock)]

\* server line 170: the projection goes to the subscribers
Publish(W, taskId, entry) ==
  [W EXCEPT !.log = Append(@, entry),
            !.sent = broadcastTaskEvent(W.sent, taskId, entry.view)]

\* an update that stores the new record and publishes the projection of the old one
SetTaskTorn(W, taskId, next, clock) ==
  Publish([W EXCEPT !.tasks = MapSet(W.tasks, taskId, next)], taskId,
          Stored("updateTask", taskId, W.tasks[taskId], clock))

\* server lines 169-170
SetTask(W, taskId, next, clock) ==
  Publish([W EXCEPT !.tasks = MapSet(W.tasks, taskId, next)], taskId,
          Stored("updateTask", taskId, next, clock))

\* an update that is dropped when nobody is subscribed to the task
updateTaskIfWatched(W, taskId, patch, clock) ==
  IF taskId \notin DOMAIN W.tasks \/ taskId \notin DOMAIN sseClients THEN W
  ELSE SetTask(W, taskId,
               Merge(Merge(W.tasks[taskId], patch), [updatedAt |-> JDate(clock)]), clock)

updateTask(W, taskId, patch, clock) ==
  IF taskId \notin DOMAIN W.tasks THEN W
  ELSE SetTask(W, taskId,
               Merge(Merge(W.tasks[taskId], patch), [updatedAt |-> JDate(clock)]), clock)

Stage(name, percent) == JObj([stage |-> name, progress |-> percent])

\* a progress report that also puts the task back to PROCESSING
onStageRestart(W, stage, clock) ==
  updateTask(W, W.run.taskId, [progress |-> stage, status |-> JStr(<<"PROCESSING">>)], clock)

\* options.onStage of runTask
onStage(W, stage, clock) == updateTask(W, W.run.taskId, [progress |-> stage], clock)

\* the run is over: what is left of its record
Finished(run) ==
  [run EXCEPT !.pc = "done", !.k = 0, !.resolved = <<>>, !.workflowGraph = JNull,
              !.warnings = <<>>, !.resultJson = JNull, !.output = <<>>, !.parts = <<>>]

NoEnd == [outcome |-> "", cause |-> "", code |-> "", resolved |-> <<>>]

\* the run of W ended with outcome, having resolved the images run.resolved
Ended(W, run, outcome, cause, code) ==
  [W EXCEPT !.run = Finished(run),
            !.ended = [outcome |-> outcome, cause |-> cause, code |-> code,
                       resolved |-> run.resolved]]

\* a failure update that also forgets the progress and the warnings
FailTaskReset(W, details, clock) ==
  updateTask(W, W.run.taskId,
             [status |-> JStr(<<"FAILED">>),
              outputUrl |-> JNull,
              errorCode |-> JStr(<<details.code>>),
              message |-> JStr(details.message),
              progress |-> JNull,
              warnings |-> JArr(<<>>)], clock)

\* a failure update that stores no error code
FailTaskNoCode(W, details, clock) ==
  updateTask(W, W.run.taskId,
             [status |-> JStr(<<"FAILED">>),
              outputUrl |-> JNull,
              errorCode |-> JNull,
              message |-> JStr(details.message)], clock)

\* server lines 214-220
FailTask(W, details, clock) ==
  updateTask(W, W.run.taskId,
             [status |-> JStr(<<"FAILED">>),
              outputUrl |-> JNull,
              errorCode |-> JStr(<<details.code>>),
              message |-> JStr(details.message)], clock)

\* a catch that records nothing
runTaskCatchSilent(W, cause, error, clock) ==
  Ended(W, W.run, "rejected", cause, error.v.code)

\* the catch block of runTask; cause names the throw site, error.v.code is the
\* thrown value's own code property
runTaskCatch(W, cause, error, clock) ==
  Ended(FailTask(W, serializeError(error.v), clock), W.run, "rejected", cause, error.v.code)

\* a success patch that always clears message
SuccessPatchNoMessage(run) ==
  [status |-> JStr(<<"SUCCESS">>),
   outputUrl |-> JStr(<<"/outputs/">> \o run.taskId \o <<".", run.output[1]>>),
   errorCode |-> JNull,
   message |-> JNull,
   warnings |-> JArr(run.warnings),
   workflowGraph |-> run.workflowGraph,
   progress |-> Stage("DONE", 100)]

\* server lines 202-211: the patch of the success update
SuccessPatch(run) ==
  [status |-> JStr(<<"SUCCESS">>),
   outputUrl |-> JStr(<<"/outputs/">> \o run.taskId \o <<".", run.output[1]>>),
   errorCode |-> JNull,
   message |-> IF run.warnings # <<>> THEN JStr(<<"completed_with_warnings">>) ELSE JNull,
   warnings |-> JArr(run.warnings),
   workflowGraph |-> run.workflowGraph,
   progress |-> Stage("DONE", 100)]

\* runTask after writeFile resolved
runTaskSuccess(W, clock) ==
  Ended(updateTask(W, W.run.taskId, SuccessPatch(W.run), clock), W.run, "resolved", "", "")

(***************************************************************************)
(* One run: runTask and runDualTrackGeneration, cut at the awaits that     *)
(* wait for I/O.  A stretch between two such awaits runs without any other *)
(* handler in between; an await on an already settled promise (a data URL) *)
(* does not end the stretch.                                               *)
(***************************************************************************)
NoFetch == [kind |-> "none", contentType |-> JNull]

\* a part of the user turn: its text (<<>> when it has none) and the image it
\* carries as inline_data (-1 none, 0 the reference, k the k-th source)
TextPart(text) == [text |-> text, image |-> -1]
ImagePart(image) == [text |-> <<>>, image |-> image]

\* engine lines 202-225: contents[0].parts, from the images in the order they
\* were resolved (the reference first)
UserParts(resolved) ==
  <<TextPart(<<"userPrompt">>), ImagePart(resolved[1])>>
    \o [i \in 1..(Len(resolved) - 1) |-> TextPart(<<"Source", ToString(i - 1), "image">>)]
    \o [i \in 1..(Len(resolved) - 1) |-> ImagePart(resolved[i + 1])]

\* engine lines 184-245: the stage report, then the provider request is sent
AfterSources(W, clock) ==
  [onStage(W, Stage("DIFFUSION_SAMPLING", 75), clock)
     EXCEPT !.run.pc = "provider", !.run.k = 0, !.run.parts = UserParts(W.run.resolved)]

\* engine lines 179-182: the loop over contract.sources from source k on (1-based)
RECURSIVE ResolveSources(_, _, _)
\* a loop that goes on to the next source when one fails
SourceResolvedSkip(W, k, r, clock) ==
  IF IsOk(r)
    THEN ResolveSources([W EXCEPT !.run.resolved = Append(@, k)], k + 1, clock)
    ELSE ResolveSources(W, k + 1, clock)

\* source k resolved to r, or its resolution threw r
SourceResolved(W, k, r, clock) ==
  IF IsOk(r)
    THEN ResolveSources([W EXCEPT !.run.resolved = Append(@, k)], k + 1, clock)
    ELSE runTaskCatch(W, "SOURCE", r, clock)

ResolveSources(W, k, clock) ==
  IF k > Len(W.run.contract.sources) THEN AfterSources(W, clock)
  ELSE IF IsHttpRef(W.run.contract.sources[k].imageRef)
    THEN [W EXCEPT !.run.pc = "source", !.run.k = k]
  ELSE SourceResolved(W, k, imageRefToInlineData(W.run.contract.sources[k].imageRef, NoFetch),
                      clock)

\* engine lines 175-177, then the loop
AfterReference(W, clock) ==
  ResolveSources(onStage(W, Stage("SOURCE_FEATURE_EXTRACTION", 45), clock), 1, clock)

\* the reference resolved to r, or its resolution threw r
ReferenceResolved(W, r, clock) ==
  IF IsOk(r)
    THEN AfterReference([W EXCEPT !.run.resolved = Append(@, 0)], clock)
    ELSE runTaskCatch(W, "REFERENCE", r, clock)

\* engine line 173
ResolveReference(W, clock) ==
  IF IsHttpRef(W.run.contract.reference.imageRef)
    THEN [W EXCEPT !.run.pc = "reference"]
  ELSE ReferenceResolved(W, imageRefToInlineData(W.run.contract.reference.imageRef, NoFetch),
                         clock)

\* contract.model || DEFAULT_MODEL
TargetModel(contract) ==
  IF "model" \in DOMAIN contract /\ contract.model # <<>> THEN contract.model ELSE DEFAULT_MODEL

\* engine lines 157-173: the graph is built, then the first stage is reported
WithGraph(W, graph, clock) ==
  ResolveReference(
    onStage([W EXCEPT !.run.workflowGraph = JObj(graph),
                      !.run.warnings = GraphWarnings(graph)],
            Stage("REFERENCE_PREPROCESS", 20), clock),
    clock)

\* engine lines 151-173
runDualTrackGeneration(W, clock) ==
  IF ~apiKey
    THEN runTaskCatch(W, "API_KEY",
                      PlainError(<<"Missing GEMINI_API_KEY environment variable.">>), clock)
  ELSE WithGraph(W, buildWorkflowGraph(W.run.contract, TargetModel(W.run.contract)), clock)

\* a run that skips the PROCESSING update
runTaskNoStart(W, clock) ==
  IF W.run.taskId \notin DOMAIN W.tasks THEN W ELSE runDualTrackGeneration(W, clock)

\* server lines 173-195: runTask up to its first wait for I/O
runTask(W, clock) ==
  IF W.run.taskId \notin DOMAIN W.tasks THEN W
  ELSE runDualTrackGeneration(
         updateTask(W, W.run.taskId,
                    [status |-> JStr(<<"PROCESSING">>),
                     errorCode |-> JNull,
                     message |-> JNull,
                     outputUrl |-> JNull,
                     progress |-> Stage("QUEUED", 0)], clock),
         clock)

\* the record of a run when runTask is called
NewRun(taskId, contract) ==
  [taskId |-> taskId, contract |-> contract, pc |-> "start", k |-> 0,
   resolved |-> <<>>, workflowGraph |-> JNull, warnings |-> <<>>,
   resultJson |-> JNull, output |-> <<>>, parts |-> <<>>]

\* the fetch of the reference image answered
ReferenceFetched(W, fetched, clock) ==
  ReferenceResolved(W, imageRefToInlineData(W.run.contract.reference.imageRef, fetched), clock)

\* the fetch of source image run.k answered
SourceFetched(W, fetched, clock) ==
  SourceResolved(W, W.run.k,
                 imageRefToInlineData(W.run.contract.sources[W.run.k].imageRef, fetched), clock)

\* engine lines 238-300: the provider answered; resp.json is JNull when the body
\* is empty or does not parse
ProviderAnswered(W, resp, clock) ==
  IF resp.kind = "throw"
    THEN runTaskCatch(W, "FETCH", PlainError(<<"fetch failed">>), clock)
  ELSE IF ~resp.ok
    THEN runTaskCatch(W, "NOT_OK",
           CodedError("GEMINI_API_ERROR",
                      OrElse(OptGet(OptGet(resp.json, "error"), "message"),
                             JStr(<<"Gemini API request failed with status">>)).v),
           clock)
  ELSE IF ~Truthy(resp.json)
    THEN runTaskCatch(W, "NON_JSON",
           CodedError("GEMINI_API_ERROR", <<"Gemini returned non-JSON success response.">>),
           clock)
  ELSE [W EXCEPT !.run.pc = "sleep", !.run.resultJson = resp.json]

\* engine lines 306-313 and server lines 197-199: the provider's JSON yields the
\* image out, or extraction threw out
Extracted(W, out, clock) ==
  IF IsOk(out)
    THEN [W EXCEPT !.run.pc = "write", !.run.resultJson = JNull,
                   !.run.output = <<out.v.outputExtension>>]
    ELSE runTaskCatch(W, "EXTRACT", out, clock)

\* engine lines 300-313 and server lines 197-199: the stage report, the extraction,
\* then writeFile is issued
SleepDone(W, clock) ==
  Extracted(onStage(W, Stage("OUTPUT_RENDER", 100), clock),
            extractOutputImage(W.run.resultJson), clock)

\* server lines 199-221: writeFile settled
WriteSettled(W, written, clock) ==
  IF written THEN runTaskSuccess(W, clock)
  ELSE runTaskCatch(W, "WRITE", PlainError(<<"ENOENT: no such file or directory">>), clock)

(***************************************************************************)
(* Inputs                                                                  *)
(***************************************************************************)
DataPng == <<"data:", "image/png", ";base64,", "AAAA">>
DataBad == <<"data:", "image/png", ",", "AAAA">>
HttpImg == <<"https://", "example.com/a.png">>
FtpImg == <<"ftp://", "x">>

RefObj(imageRef, weight) == JObj([imageRef |-> JStr(imageRef), weight |-> weight])
SrcObj(imageRef, featureType, weight) ==
  JObj([imageRef |-> JStr(imageRef), featureType |-> JStr(<<featureType>>), weight |-> weight])

\* an accepted body: the reference is fetched over http, the source is inline,
\* the weight arrives as a numeric string, the model is named
BodyA ==
  JObj([taskId |-> JStr(<<"t1">>),
        prompt |-> JStr(<<"Use", " ", "[Reference]", " ", "[Source", " ", "0", "]">>),
        model |-> JStr(<<"custom-model">>),
        reference |-> RefObj(HttpImg, JNum(90000)),
        sources |-> JArr(<<SrcObj(DataPng, "style", JStr(<<"0.75">>))>>)])

\* an accepted body: the second source is fetched over http, the taskId needs
\* trimming, and the prompt names a source that does not exist
BodyB ==
  JObj([taskId |-> JStr(<<" ", "t2">>),
        prompt |-> JStr(<<"[source", " ", "5", "]">>),
        negativePrompt |-> JStr(<<"blurry">>),
        reference |-> RefObj(DataPng, JNum(12345)),
        sources |-> JArr(<<SrcObj(DataPng, "FACE", JNum(50000)),
                           SrcObj(HttpImg, "component", JNum(65000))>>)])

\* rejected by validateGenerationContract
BodyBadWeight ==
  JObj([taskId |-> JStr(<<"t1">>),
        prompt |-> JStr(<<"plain">>),
        reference |-> RefObj(DataPng, JStr(<<"1.5">>)),
        sources |-> JArr(<<SrcObj(DataPng, "STYLE", JNum(10))>>)])

Bodies == {BodyA, BodyB, BodyBadWeight}

\* what a POST carries: JSON text of a value, text that does not parse, or nothing
RawBodies ==
  {[t |-> "json", v |-> b] : b \in Bodies}
    \cup {[t |-> "malformed", v |-> JNull]}

TaskIds == {<<"t1">>, <<"t2">>}

Candidates(parts) ==
  JObj([candidates |-> JArr(<<JObj([content |-> JObj([parts |-> JArr(parts)])])>>)])

\* the answers of the provider: a network failure, or a response
ProviderOutcomes ==
  { [kind |-> "response", ok |-> FALSE,
     json |-> JObj([error |-> JObj([message |-> JStr(<<"quota exceeded">>)])])],
    [kind |-> "response", ok |-> TRUE, json |-> JNull],
    [kind |-> "response", ok |-> TRUE, json |-> JObj([candidates |-> JArr(<<>>)])],
    [kind |-> "response", ok |-> TRUE,
     json |-> Candidates(<<JObj([text |-> JStr(<<"I cannot do that">>)])>>)],
    [kind |-> "response", ok |-> TRUE,
     json |-> Candidates(<<JObj([text |-> JStr(<<"here">>)]),
                           JObj([inline_data |->
                                   JObj([mime_type |-> JStr(<<"image/jpeg">>),
                                         data |-> JStr(<<"AAAA">>)])])>>)] }

(***************************************************************************)
(* packages/server/src/index.js: the request handler                       *)
(***************************************************************************)
HttpError(statusCode, message, code) ==
  [t |-> "err", v |-> [kind |-> "HttpError", code |-> code, message |-> message,
                       statusCode |-> statusCode]]

parseJsonBody(raw) ==
  IF raw.t = "empty" THEN HttpError(400, <<"request body is empty">>, "EMPTY_BODY")
  ELSE IF raw.t = "malformed" THEN HttpError(400, <<"invalid JSON body">>, "INVALID_JSON")
  ELSE Ok(raw.v)

\* a catch that answers 500 to every error but an HttpError
ErrorStatusAll500(e) == IF e.kind = "HttpError" THEN e.statusCode ELSE 500

\* the catch of requestHandler: the status code and error code sent
ErrorStatus(e) ==
  IF e.kind = "HttpError" THEN e.statusCode
  ELSE IF e.kind = "ContractValidationError" THEN 400
  ELSE 500

ErrorCode(e) == IF e.kind = "HttpError" THEN e.code ELSE serializeError(e).code

\* the note of a step: the HTTP status and error code answered and the task
\* projections in the body (0, "", {} when the step answers nothing), the task
\* the step worked on, the records it stored, and how the run ended if it did
Step(code, err, views, tid, log, ended) ==
  [code |-> code, err |-> err, views |-> views, tid |-> tid, log |-> log, ended |-> ended]

Reply(code, err, views) == Step(code, err, views, <<>>, <<>>, NoEnd)
Silent == Reply(0, "", {})

\* a timer fires at the instant it is due: whatever else happens in that hour
\* happens after it
NoneDue == \A tm \in timers : tm.due > now

\* accepted POSTs plus SSE connections opened so far
Load == Len(runs) + Cardinality({c \in Clients : conn[c].state # "new"})

\* a check that lets a tracked taskId pass
CheckContractOnly(contract) == contract

\* server lines 313-316: the contract validated, then the conflict check
CheckContract(contract) ==
  IF ~IsOk(contract) THEN contract
  ELSE IF contract.v.taskId \in DOMAIN tasks
    THEN HttpError(409, <<"taskId already exists">>, "TASK_EXISTS")
  ELSE contract

\* server lines 311-313
CheckBody(body) ==
  IF ~IsOk(body) THEN body ELSE CheckContract(validateGenerationContract(body.v))

\* what POST /api/tasks decides before it touches the store: the contract to
\* create a task from, or the error to answer
PostCheck(raw) == CheckBody(parseJsonBody(raw))

\* POST /api/tasks threw checked: the catch of requestHandler answers
PostRejected(checked) ==
  /\ ~IsOk(checked)
  /\ last' = Reply(ErrorStatus(checked.v), ErrorCode(checked.v), {})
  /\ sent' = Quiet
  /\ UNCHANGED <<tasks, sseClients, timers, runs, conn, now, apiKey, call>>

\* server lines 318-331 after runTask ran as far as its first wait
Started(taskId, entry, W2) ==
  /\ tasks' = W2.tasks
  /\ sent' = W2.sent
  /\ runs' = Append(runs, W2.run)
  /\ timers' = timers \cup {[taskId |-> taskId, due |-> now + RetentionHours]}
  /\ last' = Step(202, "", {entry.view}, taskId, W2.log, W2.ended)
  /\ UNCHANGED <<sseClients, conn, now, apiKey, call>>

\* server lines 318-331 for the record createTaskRecord made
Created(record, entry) ==
  Started(record.taskId.v, entry,
          runTask([tasks |-> MapSet(tasks, record.taskId.v, record),
                   sent |-> Quiet,
                   run |-> NewRun(record.taskId.v, record.contract),
                   log |-> <<entry>>,
                   ended |-> NoEnd], now))

\* server lines 318-331
Create(record) == Created(record, Stored("requestHandler", record.taskId.v, record, now))

\* POST /api/tasks passed its checks with the contract checked.v
PostAccepted(checked) ==
  /\ IsOk(checked)
  /\ Len(runs) < MaxCreates
  /\ Load < MaxLoad
  /\ Create(createTaskRecord(checked.v, now))

PostAnswer(checked) == PostRejected(checked) \/ PostAccepted(checked)

\* POST /api/tasks
Post == NoneDue /\ \E raw \in RawBodies : PostAnswer(PostCheck(raw))

\* the body of GET /api/tasks
GetTasksBody == {toTaskView(tasks[t], now) : t \in DOMAIN tasks}

\* GET /api/tasks: reads the store, writes nothing
GetTasks ==
  /\ NoneDue
  /\ last' = Reply(200, "", GetTasksBody)
  /\ sent' = Quiet
  /\ UNCHANGED <<tasks, sseClients, timers, runs, conn, now, apiKey, call>>

\* the answer of GET /api/tasks/:taskId
GetTaskReply(t) ==
  IF t \in DOMAIN tasks
    THEN Reply(200, "", {toTaskView(tasks[t], now)})
    ELSE Reply(404, "TASK_NOT_FOUND", {})

GetTaskOf(t) ==
  /\ last' = GetTaskReply(t)
  /\ sent' = Quiet
  /\ UNCHANGED <<tasks, sseClients, timers, runs, conn, now, apiKey, call>>

\* GET /api/tasks/:taskId
GetTask == NoneDue /\ \E t \in TaskIds : GetTaskOf(t)

\* a subscription that registers nobody
SubscribeNobody(c, t) == sseClients

\* server lines 359-361: the connection joins the subscribers of the task
Subscribe(c, t) ==
  MapSet(sseClients, t, (IF t \in DOMAIN sseClients THEN sseClients[t] ELSE {}) \cup {c})

EventsOf(c, t) ==
  /\ conn[c].state = "new"
  /\ \A d \in Clients : d < c => conn[d].state # "new"
  /\ IF t \notin DOMAIN tasks
       THEN /\ last' = Reply(404, "TASK_NOT_FOUND", {})
            /\ sent' = Quiet
            /\ UNCHANGED <<sseClients, conn>>
       ELSE /\ Load < MaxLoad
            /\ sent' = [Quiet EXCEPT ![c] = <<toTaskView(tasks[t], now)>>]
            /\ sseClients' = Subscribe(c, t)
            /\ conn' = [conn EXCEPT ![c] = [state |-> "open", taskId |-> t]]
            /\ last' = Step(200, "", {}, t, <<>>, NoEnd)
  /\ UNCHANGED <<tasks, timers, runs, now, apiKey, call>>

\* GET /api/tasks/:taskId/events on a new connection
Events == NoneDue /\ \E c \in Clients, t \in TaskIds : EventsOf(c, t)

\* a close handler that leaves the subscriber registered
CloseOfKeep(c) ==
  /\ conn[c].state = "open"
  /\ conn' = [conn EXCEPT ![c].state = "closed"]
  /\ sseClients' = sseClients
  /\ sent' = Quiet
  /\ last' = Silent
  /\ UNCHANGED <<tasks, timers, runs, now, apiKey, call>>

\* server lines 363-373: the close handler of connection c
CloseOf(c) ==
  /\ conn[c].state = "open"
  /\ conn' = [conn EXCEPT ![c].state = "closed"]
  /\ sseClients' =
       LET t == conn[c].taskId IN
         IF t \notin DOMAIN sseClients THEN sseClients
         ELSE IF sseClients[t] \ {c} = {} THEN MapDelete(sseClients, t)
         ELSE MapSet(sseClients, t, sseClients[t] \ {c})
  /\ sent' = Quiet
  /\ last' = Silent
  /\ UNCHANGED <<tasks, timers, runs, now, apiKey, call>>

\* req.on("close") of an SSE connection
Close == NoneDue /\ \E c \in Clients : CloseOf(c)

\* a timer that fires before it is due
EvictEarly ==
  \E tm \in timers :
    /\ tasks' = MapDelete(tasks, tm.taskId)
    /\ timers' = timers \ {tm}
    /\ last' = Step(0, "", {}, tm.taskId, <<>>, NoEnd)
    /\ sent' = Quiet
    /\ UNCHANGED <<sseClients, runs, conn, now, apiKey, call>>

\* the eviction timer of a task fires
Evict ==
  \E tm \in timers :
    /\ tm.due <= now
    /\ tasks' = MapDelete(tasks, tm.taskId)
    /\ timers' = timers \ {tm}
    /\ last' = Step(0, "", {}, tm.taskId, <<>>, NoEnd)
    /\ sent' = Quiet
    /\ UNCHANGED <<sseClients, runs, conn, now, apiKey, call>>

\* an hour passes; timers that are due fire first, and the clock is read from
\* the first accepted task on
Tick ==
  /\ now < MaxTime
  /\ timers # {}
  /\ NoneDue
  /\ now' = now + 1
  /\ last' = Silent
  /\ sent' = Quiet
  /\ UNCHANGED <<tasks, sseClients, timers, runs, conn, apiKey, call>>

World(i) == [tasks |-> tasks, sent |-> Quiet, run |-> runs[i], log |-> <<>>, ended |-> NoEnd]

\* run i goes on from the I/O it waited for, as far as its next wait
Resume(i, W2) ==
  /\ NoneDue
  /\ tasks' = W2.tasks
  /\ sent' = W2.sent
  /\ runs' = [runs EXCEPT ![i] = W2.run]
  /\ last' = Step(0, "", {}, runs[i].taskId, W2.log, W2.ended)
  /\ UNCHANGED <<sseClients, timers, conn, now, apiKey, call>>

ReferenceStep ==
  \E i \in 1..Len(runs), f \in FetchOutcomes :
    /\ runs[i].pc = "reference"
    /\ Resume(i, ReferenceFetched(World(i), f, now))

SourceStep ==
  \E i \in 1..Len(runs), f \in FetchOutcomes :
    /\ runs[i].pc = "source"
    /\ Resume(i, SourceFetched(World(i), f, now))

ProviderStep ==
  \E i \in 1..Len(runs), resp \in ProviderOutcomes :
    /\ runs[i].pc = "provider"
    /\ Resume(i, ProviderAnswered(World(i), resp, now))

SleepStep ==
  \E i \in 1..Len(runs) :
    /\ runs[i].pc = "sleep"
    /\ Resume(i, SleepDone(World(i), now))

WriteStep ==
  \E i \in 1..Len(runs), written \in BOOLEAN :
    /\ runs[i].pc = "write"
    /\ Resume(i, WriteSettled(World(i), written, now))

Init ==
  /\ tasks = <<>>
  /\ sseClients = <<>>
  /\ timers = {}
  /\ runs = <<>>
  /\ conn = [c \in Clients |-> [state |-> "new", taskId |-> <<>>]]
  /\ sent = Quiet
  /\ now = 0
  /\ apiKey \in BOOLEAN
  /\ last = Silent
  /\ call = NoCall

Next ==
  \/ Post
  \/ GetTasks
  \/ GetTask
  \/ Events
  \/ Close
  \/ Evict
  \/ Tick
  \/ ReferenceStep
  \/ SourceStep
  \/ ProviderStep
  \/ SleepStep
  \/ WriteStep

Spec == Init /\ [][Next]_vars

(***************************************************************************)
(* The validators of packages/shared applied on their own: an argument is  *)
(* drawn, then one function is applied to it.  The server stays as it was  *)
(* constructed.                                                            *)
(***************************************************************************)
\* weights as submitted: numbers, numeric strings, and values of other kinds
WeightInputs ==
  {JNum(0), JNum(50000), JNum(12345), JNum(Scale), JNum(150000), JNum(-10000),
   JStr(<<"0.75">>), JStr(<<"0.12345">>), JStr(<<"1">>), JStr(<<"1.5">>), JStr(<<"-0.1">>),
   JStr(<<>>), JStr(<<"abc">>), JStr(<<"Infinity">>), JNull, JBool(TRUE), JBool(FALSE),
   JArr(<<>>), JArr(<<JNum(50000)>>), JArr(<<JNum(50000), JNum(0)>>),
   JUndef, JNaN, JInf(1), JInf(-1)}

FeatureTypeInputs ==
  {JStr(<<"style">>), JStr(<<"Face">>), JStr(<<"material">>), JStr(<<"COMPONENT">>),
   JStr(<<"bogus">>), JStr(<<" ", "style", " ">>), JStr(<<" ">>), JStr(<<>>),
   JNum(Scale), JUndef}

\* sources as submitted
SourceInputs ==
  {JObj([imageRef |-> JStr(r), featureType |-> ft, weight |-> w]) :
     r \in {DataPng, <<>>}, ft \in FeatureTypeInputs, w \in {JStr(<<"0.12345">>), JNum(150000)}}
    \cup {JNull}

\* source lists as submitted: missing, empty, valid, and invalid at one or two
\* indexes
SourceLists ==
  {JUndef, JArr(<<>>),
   JArr(<<SrcObj(DataPng, "style", JStr(<<"0.12345">>))>>),
   JArr(<<SrcObj(DataPng, "FACE", JNum(50000)), SrcObj(HttpImg, "component", JNum(65000))>>),
   JArr(<<SrcObj(DataPng, "FACE", JNum(50000)), JNull>>),
   JArr(<<SrcObj(DataPng, "bogus", JNum(50000)), SrcObj(DataPng, "FACE", JNum(150000))>>),
   JArr(<<SrcObj(DataPng, "FACE", JNum(150000)), SrcObj(DataPng, "bogus", JNum(50000))>>)}

\* contracts as submitted: every field valid or invalid on its own
ContractInputs ==
  {JObj([taskId |-> taskId, prompt |-> prompt, negativePrompt |-> negativePrompt,
         reference |-> reference, sources |-> sources]) :
     taskId \in {JStr(<<"t1">>), JStr(<<" ", "t2", " ">>), JStr(<<" ">>), JUndef,
                 JStr(<<"..", "/", "..", "/", "t3">>), JStr(<<"sub", "/", "t4">>)},
     prompt \in {JStr(<<"plain">>), JNum(Scale)},
     negativePrompt \in {JUndef, JStr(<<" ", "blurry">>), JStr(<<>>), JNull},
     reference \in {RefObj(DataPng, JNum(90000)), RefObj(DataPng, JStr(<<"1.5">>)),
                    RefObj(<<>>, JNum(150000)), JNull},
     sources \in SourceLists}
    \cup Bodies \cup {JNull, JArr(<<>>)}

\* the contract validateGenerationContract returned, as the JavaScript object
\* it is when given back to a validator
ToJs(contract) ==
  JObj([taskId |-> JStr(contract.taskId),
        prompt |-> JStr(contract.prompt),
        negativePrompt |-> JStr(contract.negativePrompt),
        reference |-> JObj([imageRef |-> JStr(contract.reference.imageRef),
                            weight |-> JNum(contract.reference.weight)]),
        sources |-> JArr([i \in 1..Len(contract.sources) |->
                            JObj([imageRef |-> JStr(contract.sources[i].imageRef),
                                  featureType |-> JStr(contract.sources[i].featureType),
                                  weight |-> JNum(contract.sources[i].weight)])])])

Applied(fn, arg, res) ==
  /\ call' = [fn |-> fn, arg |-> arg, res |-> res]
  /\ UNCHANGED <<tasks, sseClients, timers, runs, conn, sent, now, apiKey, last>>

\* validateGenerationContract(input)
Validate ==
  /\ call.fn = ""
  /\ call.arg \in ContractInputs
  /\ Applied("validateGenerationContract", call.arg, validateGenerationContract(call.arg))

\* validateGenerationContract(validateGenerationContract(input))
Revalidate ==
  /\ call.fn = "validateGenerationContract"
  /\ IsOk(call.res)
  /\ Applied("revalidate", ToJs(call.res.v), validateGenerationContract(ToJs(call.res.v)))

\* validateSource(value, 0)
ValidateSource ==
  /\ call.fn = ""
  /\ call.arg \in SourceInputs
  /\ Applied("validateSource", call.arg, validateSource(call.arg, 0))

\* ensureWeight(value, "weight")
EnsureWeight ==
  /\ call.fn = ""
  /\ call.arg \in WeightInputs
  /\ Applied("ensureWeight", call.arg, ensureWeight(call.arg, "weight"))

\* the arguments of a call of a function of several parameters
Args(list) == [t |-> "arguments", v |-> list]

\* prompts as given to extractPromptIndexing: markers in either case, repeated,
\* with one or more blanks, without a blank, of two digits; and values that
\* are no strings
PromptInputs ==
  {JStr(<<"Use", " ", "[Reference]", " ", "[Source", " ", "0", "]">>),
   JStr(<<"[source", " ", "5", "]", " ", "[Source", " ", " ", "1", "]", "[Source", " ", "5", "]">>),
   JStr(<<"[Source", "1", "]", " ", "[reference]">>),
   JStr(<<" ", "[Source", " ", "1", "2", "]", " ", "[Source", " ", "0", "]", " ">>),
   JStr(<<"[Source", " ", "2", " ", "]">>),
   JStr(<<"plain">>), JStr(<<" ">>), JStr(<<>>),
   JNum(Scale), JNull, JUndef}

IndexingInputs == {Args(<<p, n>>) : p \in PromptInputs, n \in 0..3}

\* extractPromptIndexing(prompt, sourceCount)
ExtractPromptIndexing ==
  /\ call.fn = ""
  /\ call.arg \in IndexingInputs
  /\ Applied("extractPromptIndexing", call.arg,
             extractPromptIndexing(call.arg.v[1], call.arg.v[2]))

(***************************************************************************)
(* Static files.  A file path is the sequence of its names from the root.  *)
(* A request path is the sequence of its segments (the text between two    *)
(* "/"), each a sequence of lexemes: a name, "." or "..", and the percent  *)
(* escapes "%2e" (a dot), "%2e%2e" (two dots), "%2F" (a slash) and "%zz"   *)
(* (no escape at all).                                                     *)
(***************************************************************************)
WEB_PUBLIC_DIR == <<"repo", "packages", "web", "public">>
OUTPUT_DIR == <<"repo", "packages", "server", "public", "outputs">>

\* new URL(req.url).pathname: dot segments, also percent-encoded ones, are
\* resolved; other escapes stay as they are
RECURSIVE UrlPathname(_, _)
UrlPathname(segments, acc) ==
  IF segments = <<>> THEN acc
  ELSE IF Head(segments) \in {<<"..">>, <<"%2e%2e">>}
    THEN UrlPathname(Tail(segments),
                     (IF acc = <<>> THEN acc ELSE SubSeq(acc, 1, Len(acc) - 1))
                       \o (IF Len(segments) = 1 THEN <<<<>>>> ELSE <<>>))
  ELSE IF Head(segments) \in {<<".">>, <<"%2e">>}
    THEN UrlPathname(Tail(segments), acc \o (IF Len(segments) = 1 THEN <<<<>>>> ELSE <<>>))
  ELSE UrlPathname(Tail(segments), Append(acc, Head(segments)))

\* decodeURIComponent on one lexeme
DecodeLex(x) ==
  CASE x = "%2e" -> "."
    [] x = "%2e%2e" -> ".."
    [] x = "%2F" -> "/"
    [] OTHER -> x

\* the names a decoded segment splits into at its slashes; cur is the name
\* read so far
RECURSIVE SplitDecoded(_, _)
SplitDecoded(segment, cur) ==
  IF segment = <<>> THEN <<cur>>
  ELSE IF DecodeLex(Head(segment)) = "/" THEN <<cur>> \o SplitDecoded(Tail(segment), "")
  ELSE SplitDecoded(Tail(segment), cur \o DecodeLex(Head(segment)))

\* decodeURIComponent(pathname) as the names between its slashes; it throws
\* URIError on a malformed escape
RECURSIVE DecodeNames(_)
DecodeNames(segments) ==
  IF segments = <<>> THEN <<>>
  ELSE SplitDecoded(Head(segments), "") \o DecodeNames(Tail(segments))

decodeURIComponent(segments) ==
  IF \E i \in 1..Len(segments) : "%zz" \in Range(segments[i])
    THEN Err("URIError", "", <<"URI malformed">>)
    ELSE Ok(DecodeNames(IF segments = <<>> THEN <<<<>>>> ELSE segments))

\* path normalisation: "" and "." are dropped, ".." leaves the directory
RECURSIVE Normalize(_, _)
Normalize(dir, names) ==
  IF names = <<>> THEN dir
  ELSE IF Head(names) \in {"", "."} THEN Normalize(dir, Tail(names))
  ELSE IF Head(names) = ".."
    THEN Normalize(IF dir = <<>> THEN dir ELSE SubSeq(dir, 1, Len(dir) - 1), Tail(names))
  ELSE Normalize(Append(dir, Head(names)), Tail(names))

\* path.resolve(baseDir, relative): a relative that starts with a slash is
\* resolved from the root
PathResolve(baseDir, names) ==
  IF Len(names) >= 2 /\ names[1] = "" THEN Normalize(<<>>, names) ELSE Normalize(baseDir, names)

\* the length of the longest common prefix of two paths
RECURSIVE CommonPrefix(_, _)
CommonPrefix(a, b) ==
  IF a = <<>> \/ b = <<>> \/ Head(a) # Head(b) THEN 0 ELSE 1 + CommonPrefix(Tail(a), Tail(b))

\* path.relative(from, to)
PathRelative(from, to) ==
  [i \in 1..(Len(from) - CommonPrefix(from, to)) |-> ".."]
    \o SubSeq(to, CommonPrefix(from, to) + 1, Len(to))

\* names that start with two dots
DotDotNames == {"..", "..x"}

\* a test that accepts every path but the directory itself
isPathInsideLax(baseDir, candidatePath) == PathRelative(baseDir, candidatePath) # <<>>

\* server lines 76-79; path.relative never yields an absolute path here
isPathInside(baseDir, candidatePath) ==
  /\ PathRelative(baseDir, candidatePath) # <<>>
  /\ PathRelative(baseDir, candidatePath)[1] \notin DotDotNames

\* leading empty names dropped: replace(/^\/+/, "")
RECURSIVE StripSlashes(_)
StripSlashes(names) ==
  IF Len(names) >= 2 /\ names[1] = "" THEN StripSlashes(Tail(names)) ELSE names

\* what handleStatic did: the files it tried to read, in order, and whether it
\* served one
Static(reads, served) == [reads |-> reads, served |-> served]

\* server lines 251-267: the web application; files is the set of files that
\* exist
ServeWeb(cleaned, fullPath, files) ==
  IF ~isPathInside(WEB_PUBLIC_DIR, fullPath) THEN Static(<<>>, FALSE)
  ELSE IF fullPath \in files THEN Static(<<fullPath>>, TRUE)
  ELSE IF cleaned # <<"index.html">>
    THEN Static(<<fullPath, Append(WEB_PUBLIC_DIR, "index.html")>>,
                Append(WEB_PUBLIC_DIR, "index.html") \in files)
  ELSE Static(<<fullPath>>, FALSE)

\* server lines 242-249: fullPath resolved under OUTPUT_DIR
ServeOutput(fullPath, files) ==
  IF ~isPathInside(OUTPUT_DIR, fullPath) THEN Static(<<>>, FALSE)
  ELSE Static(<<fullPath>>, fullPath \in files)

\* pathname is given as the names after its first slash
handleStatic(pathname, files) ==
  IF Len(pathname) >= 2 /\ pathname[1] = "outputs"
    THEN ServeOutput(PathResolve(OUTPUT_DIR, Tail(pathname)), files)
  ELSE IF pathname = <<"">>
    THEN ServeWeb(<<"index.html">>, PathResolve(WEB_PUBLIC_DIR, <<"index.html">>), files)
  ELSE ServeWeb(pathname, PathResolve(WEB_PUBLIC_DIR, StripSlashes(pathname)), files)

\* server lines 294-295, 387-392 and the catch: a request that matches no API
\* route, answered from the files
StaticAnswer(pathname, files) ==
  IF ~IsOk(pathname) THEN [reads |-> <<>>, code |-> 500]
  ELSE [reads |-> handleStatic(pathname.v, files).reads,
        code |-> IF handleStatic(pathname.v, files).served THEN 200 ELSE 404]

\* the files on disk: an output, the page, and a file outside both directories
Files == {Append(OUTPUT_DIR, "a.png"), Append(WEB_PUBLIC_DIR, "index.html"), <<"etc">>,
          <<"repo", "packages", "server", "public", "a.png">>}

\* request paths: plain, with dot segments, with escaped dots and slashes,
\* with an empty segment, with a malformed escape
RequestPaths ==
  {<<<<"outputs">>, <<"a.png">>>>,
   <<<<"outputs">>, <<"missing.png">>>>,
   <<<<"outputs">>, <<"..">>, <<"etc">>>>,
   <<<<"outputs">>, <<"%2e%2e">>, <<"etc">>>>,
   <<<<"outputs">>, <<"..", "%2F", "..", "%2F", "..", "%2F", "..", "%2F", "..", "%2F", "etc">>>>,
   <<<<"outputs">>, <<"%2e%2e", "%2F", "a.png">>>>,
   <<<<"outputs">>, <<>>, <<"etc">>>>,
   <<<<"outputs">>, <<>>>>,
   <<<<"outputs">>, <<"sub">>, <<"..">>, <<"a.png">>>>,
   <<<<"outputs">>, <<"sub", "%2F", "..", "%2F", "a.png">>>>,
   <<<<"outputs">>, <<"..x">>>>,
   <<<<"outputs">>, <<"%zz">>>>,
   <<<<"outputs">>>>,
   <<<<"index.html">>>>,
   <<<<>>>>,
   <<<<"missing">>>>,
   <<<<"%2F", "outputs", "%2F", "a.png">>>>,
   <<<<"..", "%2F", "..", "%2F", "server", "%2F", "public", "%2F", "outputs", "%2F", "a.png">>>>}

\* task objects as given to createStatusResponse
StatusInputs ==
  {JObj([taskId |-> taskId, status |-> status, outputUrl |-> outputUrl,
         errorCode |-> errorCode, message |-> message, warnings |-> warnings]) :
     taskId \in {JStr(<<"t1">>), JStr(<<" ">>)},
     status \in {JStr(<<"queued">>), JStr(<<"PROCESSING">>), JStr(<<"success">>),
                 JStr(<<"failed">>), JStr(<<" ", "queued", " ">>), JStr(<<"bogus">>),
                 JStr(<<" ">>), JStr(<<>>), JNum(Scale), JUndef},
     outputUrl \in {JUndef, JStr(<<" ", "/outputs/", "t1", ".", "png">>), JStr(<<" ">>), JNum(0)},
     errorCode \in {JNull, JStr(<<"UNEXPECTED_ERROR">>)},
     message \in {JUndef, JStr(<<>>), JStr(<<"fetch failed", " ">>)},
     warnings \in {JUndef, JStr(<<"w">>),
                   JArr(<<JStr(<<"w">>), JStr(<<" ">>), JNum(0), JStr(<<" ", "w2">>)>>)}}
    \cup {JNull}

\* createStatusResponse(input)
CreateStatusResponse ==
  /\ call.fn = ""
  /\ call.arg \in StatusInputs
  /\ Applied("createStatusResponse", call.arg, createStatusResponse(call.arg, now))

\* the names a string splits into at its slashes; cur is the name read so far
RECURSIVE Names(_, _)
Names(s, cur) ==
  IF s = <<>> THEN <<cur>>
  ELSE IF Head(s) = "/" THEN <<cur>> \o Names(Tail(s), "")
  ELSE Names(Tail(s), cur \o Head(s))

\* server lines 197-198: the file name, and path.join(OUTPUT_DIR, filename)
OutputFile(taskId, outputExtension) ==
  [filename |-> taskId \o <<".", outputExtension>>,
   outputPath |-> Normalize(OUTPUT_DIR, Names(taskId \o <<".", outputExtension>>, ""))]

\* the extensions extractOutputImage yields
Extensions == {"png", "jpg", "webp"}

\* server lines 197-199 for the contract validateGenerationContract returned:
\* the file a run of it writes
WriteOutput ==
  /\ call.fn = "validateGenerationContract"
  /\ IsOk(call.res)
  /\ \E ext \in Extensions :
       Applied("writeFile", ToJs(call.res.v), OutputFile(call.res.v.taskId, ext))

\* a request path, and the files that exist when it arrives
Request(path, files) == [t |-> "request", v |-> <<path, files>>]

StaticInputs == {Request(path, files) : path \in RequestPaths, files \in {Files, {}}}

\* a GET that matches no API route
GetStatic ==
  /\ call.fn = ""
  /\ call.arg \in StaticInputs
  /\ Applied("handleStatic", call.arg,
             StaticAnswer(decodeURIComponent(UrlPathname(call.arg.v[1], <<>>)), call.arg.v[2]))

\* a provider response handed to extractOutputImage
Response(resultJson) == [t |-> "response", v |-> resultJson]

\* a part with inline image data under the camel-case or the snake-case names
CamelImage(mimeType, data) ==
  JObj([inlineData |-> JObj([mimeType |-> JStr(mimeType), data |-> JStr(data)])])
SnakeImage(mime_type, data) ==
  JObj([inline_data |-> JObj([mime_type |-> JStr(mime_type), data |-> JStr(data)])])

\* parts of a response: text, images under either convention and of several
\* types, an image without a type, one without data, a part of neither kind,
\* and parts that carry both fields
PartInputs ==
  {JObj([text |-> JStr(<<"I cannot do that">>)]),
   JObj([text |-> JStr(<<>>)]),
   JObj([thought |-> JBool(TRUE)]),
   CamelImage(<<"image/jpeg">>, <<"AAAA">>),
   SnakeImage(<<"image/webp">>, <<"BBBB">>),
   CamelImage(<<"image/gif">>, <<"CCCC">>),
   JObj([inlineData |-> JObj([data |-> JStr(<<"DDDD">>)])]),
   SnakeImage(<<"image/png">>, <<>>),
   JObj([inlineData |-> JObj([mime_type |-> JStr(<<"image/jpg">>), data |-> JStr(<<"EEEE">>)]),
         inline_data |-> JNull]),
   JObj([inlineData |-> JObj([mimeType |-> JStr(<<"image/png">>)]),
         inline_data |-> JObj([mime_type |-> JStr(<<"image/png">>), data |-> JStr(<<"FFFF">>)])])}

MaxParts == 2

ResultInputs ==
  {Response(Candidates(<<>>)), Response(JObj([candidates |-> JArr(<<>>)])),
   Response(JObj([promptFeedback |-> JStr(<<"blocked">>)]))}
    \cup {Response(Candidates(parts)) :
            parts \in UNION {[1..n -> PartInputs] : n \in 1..MaxParts}}

\* extractOutputImage(resultJson)
ExtractOutputImage ==
  /\ call.fn = ""
  /\ call.arg \in ResultInputs
  /\ Applied("extractOutputImage", call.arg, extractOutputImage(call.arg.v))

LibraryInit ==
  /\ tasks = <<>>
  /\ sseClients = <<>>
  /\ timers = {}
  /\ runs = <<>>
  /\ conn = [c \in Clients |-> [state |-> "new", taskId |-> <<>>]]
  /\ sent = Quiet
  /\ now = 0
  /\ apiKey = TRUE
  /\ last = Silent
  /\ call \in {[fn |-> "", arg |-> x, res |-> JUndef] :
                 x \in ContractInputs \cup SourceInputs \cup WeightInputs
                         \cup IndexingInputs \cup StaticInputs \cup StatusInputs
                         \cup ResultInputs}

LibraryNext ==
  \/ Validate
  \/ Revalidate
  \/ ValidateSource
  \/ EnsureWeight
  \/ ExtractPromptIndexing
  \/ GetStatic
  \/ WriteOutput
  \/ CreateStatusResponse
  \/ ExtractOutputImage

Library == LibraryInit /\ [][LibraryNext]_vars

(***************************************************************************)
(* Properties                                                              *)
(***************************************************************************)
Terminal == {"SUCCESS", "FAILED"}

\* the statuses a step stored under taskId t, in order, after the one it found
StatusesOf(t) ==
  (IF t \in DOMAIN tasks THEN <<StatusOf(tasks[t])>> ELSE <<>>)
    \o [k \in 1..Len(SelectSeq(last'.log, LAMBDA e : e.taskId = t)) |->
          SelectSeq(last'.log, LAMBDA e : e.taskId = t)[k].status]

\* C1: while a taskId stays tracked, a status SUCCESS or FAILED stored under it
\* is never replaced by another status, whichever run issues the update.
C1_TerminalIsFinal ==
  [][\A t \in DOMAIN tasks \cap DOMAIN tasks' :
       StatusOf(tasks[t]) \in Terminal => StatusOf(tasks'[t]) = StatusOf(tasks[t])]_vars

\* one status may follow another under the same taskId
MayFollow(a, b) ==
  \/ a = b
  \/ a = "QUEUED" /\ b = "PROCESSING"
  \/ a = "PROCESSING" /\ b \in Terminal

\* C2: the statuses stored under a taskId run through QUEUED, PROCESSING and then
\* SUCCESS or FAILED without a step back or a skipped PROCESSING; SUCCESS is stored
\* only by a run that resolved and FAILED only by a run that rejected.
C2_StatusOrder ==
  [][\A t \in TaskIds :
       \A k \in 1..(Len(StatusesOf(t)) - 1) :
         /\ MayFollow(StatusesOf(t)[k], StatusesOf(t)[k + 1])
         /\ StatusesOf(t)[k] # StatusesOf(t)[k + 1] =>
              /\ StatusesOf(t)[k + 1] = "SUCCESS" => last'.ended.outcome = "resolved"
              /\ StatusesOf(t)[k + 1] = "FAILED" => last'.ended.outcome = "rejected"]_vars

\* the throw sites of a run whose provider answered badly: a non-success response,
\* a success response that is not JSON, a response without candidates or with
\* text only
ProviderCauses == {"NOT_OK", "NON_JSON", "EXTRACT"}

\* C3: a run that failed on the provider's answer leaves its task FAILED with
\* errorCode GEMINI_API_ERROR and a non-empty message.
C3_ProviderErrorCode ==
  (last.ended.cause \in ProviderCauses /\ last.log # <<>>) =>
    /\ last.log[Len(last.log)].status = "FAILED"
    /\ last.log[Len(last.log)].view.errorCode = JStr(<<"GEMINI_API_ERROR">>)
    /\ last.log[Len(last.log)].view.message.t = "string"

\* C4: every failure of a started run ends in the catch of runTask: if the task
\* is tracked it is left FAILED with errorCode and message set, the request that
\* started the run is still answered 202, and the run is over for good: it is
\* neither resumed nor started again.
C4_FailuresRecorded ==
  [][/\ last'.ended.outcome = "rejected" =>
          /\ last'.code \in {0, 202}
          /\ last'.tid \in DOMAIN tasks' =>
               /\ StatusOf(tasks'[last'.tid]) = "FAILED"
               /\ tasks'[last'.tid].errorCode.t = "string"
               /\ tasks'[last'.tid].message.t = "string"
               /\ toTaskView(tasks'[last'.tid], now').errorCode # JNull
               /\ toTaskView(tasks'[last'.tid], now').message # JNull
          /\ \E i \in 1..Len(runs') :
               /\ runs'[i].taskId = last'.tid
               /\ runs'[i].pc = "done"
               /\ i <= Len(runs) => runs[i].pc # "done"
     /\ \A i \in 1..Len(runs) : runs[i].pc = "done" => runs'[i] = runs[i]
     /\ Len(runs') > Len(runs) => Len(runs') = Len(runs) + 1 /\ last'.code = 202]_vars

C4_Witness ==
  /\ last.ended.outcome = "rejected"
  /\ last.ended.cause = "WRITE"
  /\ last.tid \in DOMAIN tasks
  /\ StatusOf(tasks[last.tid]) = "FAILED"

\* the projections updateTask published for taskId t in the step, in order
UpdatesOf(t) ==
  [k \in 1..Len(SelectSeq(last'.log, LAMBDA e : e.taskId = t /\ e.by = "updateTask")) |->
     SelectSeq(last'.log, LAMBDA e : e.taskId = t /\ e.by = "updateTask")[k].view]

\* C5: in every step, each connection subscribed to a taskId is written exactly
\* the projections of the records updateTask stored under that taskId in the
\* step, once each and in the order stored, so all subscribers of a task read
\* the same sequence; a connection that is not subscribed is written nothing.
C5_Delivery ==
  [][\A c \in Clients :
       /\ (conn[c].state = "open" /\ conn'[c].state = "open") =>
            sent'[c] = UpdatesOf(conn[c].taskId)
       /\ conn'[c].state # "open" => sent'[c] = <<>>]_vars

C5_Witness ==
  /\ \A c \in Clients : conn[c].state = "open" /\ conn[c].taskId = <<"t1">>
  /\ Len(sent[1]) >= 2
  /\ sent[1] = sent[2]

\* C6: a connection opened on a tracked task is written, in the step that
\* registers it, exactly one event, the projection of the record stored at that
\* moment, and no record is stored in that step; a request answered 404
\* registers nobody and writes nothing.
C6_SnapshotThenUpdates ==
  [][/\ \A c \in Clients :
          (conn[c].state = "new" /\ conn'[c].state = "open") =>
            /\ conn'[c].taskId \in DOMAIN tasks
            /\ sent'[c] = <<toTaskView(tasks[conn'[c].taskId], now)>>
            /\ tasks' = tasks
            /\ last'.log = <<>>
            /\ last'.code = 200
            /\ conn'[c].taskId \in DOMAIN sseClients'
            /\ c \in sseClients'[conn'[c].taskId]
     /\ last'.code = 404 => sseClients' = sseClients /\ conn' = conn /\ sent' = Quiet]_vars

C6_Witness ==
  /\ conn[1].state = "open"
  /\ last.code = 200
  /\ last.tid = conn[1].taskId
  /\ Len(sent[1]) = 1
  /\ sent[1][1].status = JStr(<<"PROCESSING">>)

\* the body raw validates to a contract whose taskId is tracked
Tracked(raw) ==
  /\ raw.t = "json"
  /\ IsOk(validateGenerationContract(raw.v))
  /\ validateGenerationContract(raw.v).v.taskId \in DOMAIN tasks

\* C7: POST /api/tasks with a valid contract whose taskId is tracked is answered
\* 409 TASK_EXISTS; the task map (hence the existing record), the runs, the
\* eviction timers and the subscribers stay as they are and no event is written.
C7_Conflict ==
  [][/\ \A raw \in RawBodies :
          (Tracked(raw) /\ NoneDue /\ PostAnswer(PostCheck(raw))) =>
            /\ last'.code = 409
            /\ last'.err = "TASK_EXISTS"
            /\ UNCHANGED <<tasks, runs, timers, sseClients, conn>>
            /\ sent' = Quiet
     /\ Len(runs') > Len(runs) => last'.tid \notin DOMAIN tasks]_vars

C7_Witness ==
  /\ last.code = 409
  /\ last.err = "TASK_EXISTS"
  /\ \E t \in DOMAIN tasks : StatusOf(tasks[t]) = "SUCCESS"

\* the body raw is JSON that validateGenerationContract rejects
Invalid(raw) == raw.t = "json" /\ ~IsOk(validateGenerationContract(raw.v))

\* C8: POST /api/tasks with a body validateGenerationContract rejects is answered
\* 400 with the validation code; the task map, the subscriber map, the runs and
\* the eviction timers stay as they are.
C8_InvalidChangesNothing ==
  [][\A raw \in RawBodies :
       (Invalid(raw) /\ NoneDue /\ PostAnswer(PostCheck(raw))) =>
         /\ last'.code = 400
         /\ last'.err = validateGenerationContract(raw.v).v.code
         /\ UNCHANGED <<tasks, sseClients, runs, timers>>]_vars

C8_Witness ==
  /\ last.code = 400
  /\ last.err = "WEIGHT_OUT_OF_RANGE"
  /\ tasks # <<>>

\* C9 as stated: in every record with status SUCCESS, errorCode is null and
\* message is null, with or without warnings.
C9_MessageAlwaysNull ==
  \A t \in DOMAIN tasks :
    StatusOf(tasks[t]) = "SUCCESS" => tasks[t].errorCode = JNull /\ tasks[t].message = JNull

\* C9: in every record with status SUCCESS, outputUrl names the output file,
\* warnings and workflowGraph are set, errorCode is null, and message is null
\* when the run produced no warning and "completed_with_warnings" when it did.
C9_SuccessFields ==
  \A t \in DOMAIN tasks :
    StatusOf(tasks[t]) = "SUCCESS" =>
      /\ tasks[t].outputUrl.t = "string"
      /\ tasks[t].warnings.t = "array"
      /\ tasks[t].workflowGraph.t = "object"
      /\ tasks[t].errorCode = JNull
      /\ tasks[t].message =
           IF tasks[t].warnings.v = <<>> THEN JNull ELSE JStr(<<"completed_with_warnings">>)

C9_Witness ==
  \E t \in DOMAIN tasks :
    /\ StatusOf(tasks[t]) = "SUCCESS"
    /\ tasks[t].warnings.v # <<>>
    /\ tasks[t].message = JStr(<<"completed_with_warnings">>)

\* C10: every event written to a connection is the whole projection of a record
\* stored under the connection's taskId, in that step or (for the first event)
\* before it; the last event of a step is the projection of the record the
\* step leaves in the store; no event has status SUCCESS with outputUrl null or
\* status PROCESSING with an errorCode or outputUrl.
C10_NoTornEvent ==
  [][\A c \in Clients :
       /\ \A k \in 1..Len(sent'[c]) :
            /\ \/ \E j \in 1..Len(last'.log) :
                    /\ last'.log[j].taskId = conn'[c].taskId
                    /\ last'.log[j].view = sent'[c][k]
               \/ /\ conn[c].state = "new"
                  /\ conn'[c].taskId \in DOMAIN tasks
                  /\ sent'[c][k] = toTaskView(tasks[conn'[c].taskId], now)
            /\ sent'[c][k].status = JStr(<<"SUCCESS">>) => sent'[c][k].outputUrl # JNull
            /\ sent'[c][k].status = JStr(<<"PROCESSING">>) =>
                 sent'[c][k].errorCode = JNull /\ sent'[c][k].outputUrl = JNull
       /\ (sent'[c] # <<>> /\ conn'[c].taskId \in DOMAIN tasks') =>
            sent'[c][Len(sent'[c])] = toTaskView(tasks'[conn'[c].taskId], now')]_vars

C10_Witness ==
  \E c \in Clients :
    /\ conn[c].state = "open"
    /\ sent[c] # <<>>
    /\ sent[c][Len(sent[c])].status = JStr(<<"SUCCESS">>)
    /\ Len(runs) = 2

Stages ==
  {Stage("REFERENCE_PREPROCESS", 20), Stage("SOURCE_FEATURE_EXTRACTION", 45),
   Stage("DIFFUSION_SAMPLING", 75), Stage("OUTPUT_RENDER", 100)}

\* what a progress report of stage on taskId t made of the store: W2 is the
\* world after it
ProgressFrame(t, stage, W2) ==
  IF t \in DOMAIN tasks
    THEN /\ DOMAIN W2.tasks = DOMAIN tasks
         /\ \A u \in DOMAIN tasks \ {t} : W2.tasks[u] = tasks[u]
         /\ DOMAIN W2.tasks[t] = DOMAIN tasks[t]
         /\ \A f \in DOMAIN tasks[t] \ {"progress", "updatedAt"} : W2.tasks[t][f] = tasks[t][f]
         /\ W2.tasks[t].progress = stage
         /\ W2.tasks[t].updatedAt = JDate(now)
    ELSE /\ W2.tasks = tasks
         /\ W2.sent = Quiet
         /\ W2.log = <<>>

\* C12: in every reachable state, a progress report of any run changes only
\* progress and updatedAt of the record stored under the run's taskId (status,
\* outputUrl, errorCode, message, warnings, workflowGraph and contract stay, and
\* so does every other record); with no record under that taskId it stores
\* nothing, inserts nothing and writes to no connection.
C12_ProgressOnly ==
  \A i \in 1..Len(runs), stage \in Stages :
    ProgressFrame(runs[i].taskId, stage, onStage(World(i), stage, now))

\* a resumed run reported SOURCE_FEATURE_EXTRACTION on its tracked task
C12_Witness ==
  /\ last.code = 0
  /\ last.log # <<>>
  /\ last.log[1].view.progress = Stage("SOURCE_FEATURE_EXTRACTION", 45)
  /\ last.tid \in DOMAIN tasks
  /\ \E i \in 1..Len(runs) : runs[i].taskId \notin DOMAIN tasks

\* thrown values given to the catch of a run: plain errors, one with an own code,
\* and a ContractValidationError
Caught ==
  {PlainError(<<"fetch failed">>),
   PlainError(<<"Missing GEMINI_API_KEY environment variable.">>),
   CodedError("GEMINI_API_ERROR", <<"Gemini returned non-JSON success response.">>),
   Err("ContractValidationError", "INVALID_IMAGE_REF", <<"imageRef">>)}

\* what the catch of a run on taskId t, having caught error, made of the store:
\* W2 is the world after it
FailedFrame(t, error, W2) ==
  t \in DOMAIN tasks =>
    /\ DOMAIN W2.tasks = DOMAIN tasks
    /\ \A u \in DOMAIN tasks \ {t} : W2.tasks[u] = tasks[u]
    /\ DOMAIN W2.tasks[t] = DOMAIN tasks[t]
    /\ \A f \in DOMAIN tasks[t] \ {"status", "errorCode", "message", "outputUrl", "updatedAt"} :
         W2.tasks[t][f] = tasks[t][f]
    /\ W2.tasks[t].status = JStr(<<"FAILED">>)
    /\ W2.tasks[t].errorCode = JStr(<<serializeError(error.v).code>>)
    /\ W2.tasks[t].message = JStr(serializeError(error.v).message)
    /\ W2.tasks[t].outputUrl = JNull
    /\ W2.tasks[t].updatedAt = JDate(now)

\* C13: in every reachable state, the catch of any run sets status FAILED,
\* errorCode and message as serializeError gives them for the caught error, and
\* outputUrl null on the record stored under the run's taskId; warnings,
\* workflowGraph, contract, taskId and progress of that record, and every other
\* record, stay as they were.
C13_FailedFrame ==
  \A i \in 1..Len(runs), error \in Caught :
    FailedFrame(runs[i].taskId, error, runTaskCatch(World(i), "FETCH", error, now))

\* a run failed after it reported DIFFUSION_SAMPLING: the record is FAILED and
\* still carries that progress
C13_Witness ==
  /\ last.ended.outcome = "rejected"
  /\ last.tid \in DOMAIN tasks
  /\ StatusOf(tasks[last.tid]) = "FAILED"
  /\ tasks[last.tid].progress = Stage("DIFFUSION_SAMPLING", 75)
  /\ tasks[last.tid].errorCode = JStr(<<"UNEXPECTED_ERROR">>)
  /\ tasks[last.tid].outputUrl = JNull

\* the step ended run i
EndedIn(i) == runs'[i].pc = "done" /\ (i <= Len(runs) => runs[i].pc # "done")

\* C14: a step answers 202 exactly when it appends one run, for the task it
\* created; the first thing that run stores is the QUEUED record turned
\* PROCESSING with errorCode, message and outputUrl null and progress QUEUED 0,
\* and no other update anywhere finds a QUEUED record.  A run ends at most
\* once (a finished run never acts again), a step ends at most one run, and the
\* ending step stores one terminal status, SUCCESS when the run resolved and
\* FAILED when it rejected, as its last update; no step turns a record's status
\* terminal otherwise.
C14_StartOnce ==
  [][/\ \A t \in DOMAIN tasks : StatusOf(tasks[t]) # "QUEUED"
     /\ IF last'.code = 202
          THEN /\ Len(runs') = Len(runs) + 1
               /\ SubSeq(runs', 1, Len(runs)) = runs
               /\ runs'[Len(runs')].taskId = last'.tid
               /\ last'.tid \notin DOMAIN tasks
               /\ Len(last'.log) >= 2
               /\ last'.log[1].by = "requestHandler" /\ last'.log[1].status = "QUEUED"
               /\ last'.log[2].by = "updateTask" /\ last'.log[2].status = "PROCESSING"
               /\ last'.log[2].view.errorCode = JNull
               /\ last'.log[2].view.message = JNull
               /\ last'.log[2].view.outputUrl = JNull
               /\ last'.log[2].view.progress = Stage("QUEUED", 0)
               /\ \A k \in 3..Len(last'.log) : last'.log[k - 1].status # "QUEUED"
          ELSE /\ Len(runs') = Len(runs)
               /\ \A k \in 1..Len(last'.log) : last'.log[k].by = "updateTask"
     /\ \A i \in 1..Len(runs) : runs[i].pc = "done" => runs'[i] = runs[i]
     /\ \A i, j \in 1..Len(runs') : EndedIn(i) /\ EndedIn(j) => i = j
     /\ (\E i \in 1..Len(runs') : EndedIn(i)) <=> last'.ended.outcome # ""
     /\ \A k \in 1..Len(last'.log) :
          (/\ last'.log[k].status \in Terminal
           /\ \/ k > 1 /\ last'.log[k - 1].status # last'.log[k].status
              \/ k = 1 /\ StatusOf(tasks[last'.tid]) # last'.log[k].status) =>
            /\ k = Len(last'.log)
            /\ last'.ended.outcome = (IF last'.log[k].status = "SUCCESS" THEN "resolved" ELSE "rejected")
     /\ (last'.ended.outcome # "" /\ last'.tid \in DOMAIN tasks') =>
          /\ last'.log # <<>>
          /\ last'.log[Len(last'.log)].status =
               (IF last'.ended.outcome = "resolved" THEN "SUCCESS" ELSE "FAILED")]_vars

\* the second accepted POST started its run after the first task's run ended
C14_Witness ==
  /\ last.code = 202
  /\ Len(runs) = 2
  /\ runs[1].pc = "done"
  /\ runs[2].pc # "done"
  /\ last.log[2].status = "PROCESSING"
  /\ StatusOf(tasks[last.tid]) = "PROCESSING"

\* the pending eviction timers of taskId t
TimersOf(t) == {tm \in timers : tm.taskId = t}

\* C15: a taskId enters the store only together with one new timer due one
\* retention window after that moment, and no older timer of that taskId is
\* pending then; a taskId leaves the store only when a timer of it fires at
\* exactly its due time; meanwhile timers are neither added, dropped nor
\* changed, the clock never passes a pending timer, and every stored task has
\* exactly one pending timer, whatever its status.  So each task, also one
\* created under a reused taskId, is removed exactly one retention window after
\* its own creation.
C15_Retention ==
  [][/\ \A t \in DOMAIN tasks : Cardinality(TimersOf(t)) = 1
     /\ \A tm \in timers : tm.taskId \in DOMAIN tasks /\ now <= tm.due /\ tm.due <= now + RetentionHours
     /\ \A tm \in timers' : now' <= tm.due
     /\ \A t \in DOMAIN tasks' \ DOMAIN tasks :
          /\ TimersOf(t) = {}
          /\ timers' = timers \cup {[taskId |-> t, due |-> now + RetentionHours]}
          /\ now' = now
     /\ \A t \in DOMAIN tasks \ DOMAIN tasks' :
          /\ [taskId |-> t, due |-> now] \in timers
          /\ timers' = timers \ {[taskId |-> t, due |-> now]}
          /\ now' = now
     /\ DOMAIN tasks' = DOMAIN tasks => timers' = timers]_vars

\* the task created under the taskId of an evicted task was evicted in its turn,
\* one hour after its own creation, while its run was still going on
C15_Witness ==
  /\ now = 2 * RetentionHours
  /\ Len(runs) = 2
  /\ runs[1].taskId = runs[2].taskId
  /\ runs[2].pc \notin {"done", "start"}
  /\ last = Step(0, "", {}, runs[2].taskId, <<>>, NoEnd)
  /\ tasks = <<>>
  /\ timers = {}

\* the model a submitted body asks for
Requested(body) ==
  IF Truthy(Get(body, "model")) THEN Get(body, "model").v ELSE DEFAULT_MODEL

\* the submitted bodies a contract was validated from
SubmittedAs(contract) ==
  {body \in Bodies : validateGenerationContract(body) = Ok(contract)}

\* C16: the workflow graph of every run, and the one recorded on every task,
\* names the model of the submitted body the task was created from when that
\* body names one, and the default model otherwise.
C16_TargetModel ==
  /\ \A i \in 1..Len(runs) : \A body \in SubmittedAs(runs[i].contract) :
       runs[i].workflowGraph # JNull => runs[i].workflowGraph.v.model = Requested(body)
  /\ \A t \in DOMAIN tasks : \A body \in SubmittedAs(tasks[t].contract) :
       tasks[t].workflowGraph # JNull => tasks[t].workflowGraph.v.model = Requested(body)

\* C17: whenever validateGenerationContract accepted an input and the contract
\* it returned was validated again, the second validation succeeded and
\* returned a contract equal to the first in taskId, prompt, negativePrompt,
\* reference and the sources in order and number.
C17_Idempotent ==
  call.fn = "revalidate" => IsOk(call.res) /\ ToJs(call.res.v) = call.arg

\* re-validated: the contract of an input whose taskId needed trimming and
\* whose source weight "0.12345" was rounded
C17_Witness ==
  /\ call.fn = "revalidate"
  /\ IsOk(call.res)
  /\ call.res.v.taskId = <<"t2">>
  /\ call.res.v.negativePrompt = <<"blurry">>
  /\ Len(call.res.v.sources) = 1
  /\ call.res.v.sources[1].weight = 12350
  /\ call.res.v.sources[1].featureType = <<"STYLE">>

\* the number a submitted weight denotes when it is a number or a numeric
\* string, as a set: empty for every other value
Denoted(w) ==
  IF w.t = "number" THEN {w.v}
  ELSE IF w.t = "string" /\ Len(w.v) = 1 /\ w.v[1] \in DOMAIN NumLex THEN {NumLex[w.v[1]]}
  ELSE {}

\* n rounded to 4 decimal places
Round4(n) == IF n % 10 >= 5 THEN n - (n % 10) + 10 ELSE n - (n % 10)

FailsWith(res, code) == ~IsOk(res) /\ res.v.code = code

\* C18: ensureWeight stores a number or numeric string inside [0,1] rounded to
\* 4 decimal places, fails with WEIGHT_OUT_OF_RANGE for one outside [0,1], and
\* fails with INVALID_WEIGHT for every other value (the empty string, null,
\* booleans, arrays, undefined, NaN, the infinities).
C18_Weights ==
  call.fn = "ensureWeight" =>
    /\ \A n \in Denoted(call.arg) :
         IF 0 <= n /\ n <= Scale THEN call.res = Ok(Round4(n))
         ELSE FailsWith(call.res, "WEIGHT_OUT_OF_RANGE")
    /\ Denoted(call.arg) = {} => FailsWith(call.res, "INVALID_WEIGHT")

\* the first of results that is a violation
FirstBad(results) ==
  CHOOSE k \in 1..Len(results) :
    ~IsOk(results[k]) /\ \A j \in 1..(k - 1) : IsOk(results[j])

\* res reports the first violation among results, and succeeds when there is none
ReportsFirst(res, results) ==
  IF \A k \in 1..Len(results) : IsOk(results[k])
    THEN IsOk(res)
    ELSE res = results[FirstBad(results)]

\* what each field of input yields when checked on its own, in the order
\* taskId, prompt, negativePrompt, reference, sources
FieldChecks(input) ==
  <<ensureString(Get(input, "taskId"), "taskId", FALSE),
    ensureString(Get(input, "prompt"), "prompt", FALSE),
    IF Get(input, "negativePrompt") = JUndef THEN Ok(<<>>)
    ELSE ensureString(Get(input, "negativePrompt"), "negativePrompt", TRUE),
    validateReference(Get(input, "reference")),
    SourcesOf(Get(input, "sources"))>>

\* what each source of a non-empty list yields when checked on its own
SourceChecks(srcs) ==
  IF srcs.t = "array" THEN [k \in 1..Len(srcs.v) |-> validateSource(srcs.v[k], k - 1)] ELSE <<>>

\* validateGenerationContract reported the first violation of an object input
FirstViolation ==
  (call.fn = "validateGenerationContract" /\ isRecord(call.arg)) =>
    /\ ReportsFirst(call.res, FieldChecks(call.arg))
    /\ (\A k \in 1..4 : IsOk(FieldChecks(call.arg)[k])) =>
         \/ ReportsFirst(call.res, SourceChecks(Get(call.arg, "sources")))
         \/ FailsWith(call.res, "INVALID_SOURCES")

\* C19: applying validateGenerationContract leaves its input as it was, and
\* for an input with several violations it reports the one of the earliest
\* field in the order taskId, prompt, negativePrompt, reference, sources, and
\* among the sources the one of the lowest index.
C19_FirstViolation ==
  [][/\ call'.fn = "validateGenerationContract" => call'.arg = call.arg
     /\ FirstViolation']_vars

\* an input with a number for prompt, null for reference and no sources: the
\* prompt is reported
C19_Witness ==
  /\ call.fn = "validateGenerationContract"
  /\ isRecord(call.arg)
  /\ ~IsOk(FieldChecks(call.arg)[2])
  /\ ~IsOk(FieldChecks(call.arg)[4])
  /\ ~IsOk(FieldChecks(call.arg)[5])
  /\ FailsWith(call.res, "INVALID_STRING")
  /\ call.res.v.message = <<"prompt", "must be a string">>

\* the four kinds, as strings
Kinds == {<<FEATURE_TYPES[i]>> : i \in 1..Len(FEATURE_TYPES)}

\* s equals one of the four kinds ignoring letter case
IsKind(s) == ToUpperCase(s) \in Kinds

\* the featureType of a submitted source when it is a string, as a set
WrittenKind(source) ==
  IF isRecord(source) /\ Get(source, "featureType").t = "string"
    THEN {Get(source, "featureType").v}
    ELSE {}

\* every featureType of a validated contract is one of the four kinds
StoredKinds ==
  (call.fn \in {"validateGenerationContract", "revalidate"} /\ IsOk(call.res)) =>
    \A i \in 1..Len(call.res.v.sources) : call.res.v.sources[i].featureType \in Kinds

\* C20 as stated: validateSource accepts a featureType string exactly when it
\* equals one of the four kinds ignoring letter case, and fails with
\* INVALID_FEATURE_TYPE for every other string.
C20_AsStated ==
  /\ call.fn = "validateSource" =>
       \A s \in WrittenKind(call.arg) :
         IF IsKind(s)
           THEN IsOk(call.res) => call.res.v.featureType = ToUpperCase(s)
           ELSE FailsWith(call.res, "INVALID_FEATURE_TYPE")
  /\ StoredKinds

\* C20: validateSource trims the featureType string first; a string that is
\* blank fails with EMPTY_STRING; one whose trimmed text equals one of the four
\* kinds ignoring letter case passes the featureType check and, when the rest
\* of the source is valid, is stored as that kind in upper case; every other
\* string fails with INVALID_FEATURE_TYPE.  Every featureType of a validated
\* contract is one of the four upper-case kinds.
C20_FeatureType ==
  /\ call.fn = "validateSource" =>
       \A s \in WrittenKind(call.arg) :
         IF Trim(s) = <<>> THEN FailsWith(call.res, "EMPTY_STRING")
         ELSE IF IsKind(Trim(s))
           THEN /\ ~FailsWith(call.res, "INVALID_FEATURE_TYPE")
                /\ IsOk(call.res) => call.res.v.featureType = ToUpperCase(Trim(s))
         ELSE FailsWith(call.res, "INVALID_FEATURE_TYPE")
  /\ StoredKinds

\* a source written with featureType " style " was accepted and stored as STYLE
C20_Witness ==
  /\ call.fn = "validateSource"
  /\ WrittenKind(call.arg) = {<<" ", "style", " ">>}
  /\ IsOk(call.res)
  /\ call.res.v.featureType = <<"STYLE">>

\* [Source k] occurs in the string s: the opening lexeme in any case, one or
\* more blanks, the digits of k, the closing bracket
SourceOccurs(s, k) ==
  \E i \in 1..Len(s) : \E a \in (i + 2)..Len(s) : \E b \in (a + 1)..Len(s) :
    /\ UpperLex(s[i]) = "[SOURCE"
    /\ \A j \in (i + 1)..(a - 1) : s[j] \in WS
    /\ \A j \in a..(b - 1) : s[j] \in Digits
    /\ s[b] = "]"
    /\ DigitsValue(s, a, b, 0) = k

\* list has no duplicates
DuplicateFree(list) == \A i, j \in 1..Len(list) : list[i] = list[j] => i = j

\* the numbers a prompt of these inputs can name
Named == 0..12

\* C21: extractPromptIndexing never fails; sourceIndexes lists without
\* duplicates exactly the k that occur as [Source k] in the prompt, outOfRange
\* exactly those of them with k >= sourceCount, and usesReference tells
\* whether [Reference] occurs, both markers in any letter case.
C21_PromptIndexing ==
  call.fn = "extractPromptIndexing" =>
    /\ IsOk(call.res)
    /\ DuplicateFree(call.res.v.sourceIndexes)
    /\ DuplicateFree(call.res.v.outOfRange)
    /\ \A k \in Named :
         /\ k \in Range(call.res.v.sourceIndexes) <=> SourceOccurs(call.arg.v[1].v, k)
         /\ k \in Range(call.res.v.outOfRange) <=>
              (SourceOccurs(call.arg.v[1].v, k) /\ k >= call.arg.v[2])
    /\ Range(call.res.v.sourceIndexes) \subseteq Named
    /\ call.res.v.usesReference <=>
         \E i \in 1..Len(call.arg.v[1].v) : UpperLex(call.arg.v[1].v[i]) = "[REFERENCE]"

\* the position of the part of parts that carries image
PartOf(parts, image) == CHOOSE p \in 1..Len(parts) : parts[p].image = image

\* C22: in the user turn of every provider request sent, the reference image
\* part comes before every source image part, the source image parts follow
\* the contract's source order, and the part right before the image part of
\* source k is the text marker of source k.
C22_PartsOrder ==
  \A i \in 1..Len(runs) :
    runs[i].pc = "provider" =>
      \A k \in 1..Len(runs[i].contract.sources) :
        /\ PartOf(runs[i].parts, 0) < PartOf(runs[i].parts, k)
        /\ \A j \in 1..(k - 1) : PartOf(runs[i].parts, j) < PartOf(runs[i].parts, k)
        /\ runs[i].parts[PartOf(runs[i].parts, k) - 1] =
             TextPart(<<"Source", ToString(k - 1), "image">>)

\* path lies strictly inside directory dir
StrictlyInside(dir, path) ==
  Len(path) > Len(dir) /\ SubSeq(path, 1, Len(dir)) = dir

\* the decoded pathname of a static request starts with /outputs/
ForOutputs(path) ==
  /\ IsOk(decodeURIComponent(UrlPathname(path, <<>>)))
  /\ Len(decodeURIComponent(UrlPathname(path, <<>>)).v) >= 2
  /\ decodeURIComponent(UrlPathname(path, <<>>)).v[1] = "outputs"

\* C23: whatever the request path, a GET under /outputs/ reads a file only if
\* the file's resolved path lies strictly inside the output directory, and no
\* static request reads a file outside the output and web directories.
C23_NoTraversal ==
  call.fn = "handleStatic" =>
    \A i \in 1..Len(call.res.reads) :
      /\ ForOutputs(call.arg.v[1]) => StrictlyInside(OUTPUT_DIR, call.res.reads[i])
      /\ \/ StrictlyInside(OUTPUT_DIR, call.res.reads[i])
         \/ StrictlyInside(WEB_PUBLIC_DIR, call.res.reads[i])

\* /outputs/..%2F..%2F..%2F..%2F..%2Fetc was answered 404 although /etc exists,
\* and nothing was read
C23_Witness ==
  /\ call.fn = "handleStatic"
  /\ ForOutputs(call.arg.v[1])
  /\ PathResolve(OUTPUT_DIR, Tail(decodeURIComponent(UrlPathname(call.arg.v[1], <<>>)).v)) = <<"etc">>
  /\ <<"etc">> \in call.arg.v[2]
  /\ call.res = [reads |-> <<>>, code |-> 404]

\* C24: for every contract validation accepts, the file a run writes lies
\* directly in the output directory and is named <taskId>.<ext> with ext one
\* of png, jpg, webp.
C24_FlatOutput ==
  call.fn = "writeFile" =>
    /\ Len(call.res.outputPath) = Len(OUTPUT_DIR) + 1
    /\ SubSeq(call.res.outputPath, 1, Len(OUTPUT_DIR)) = OUTPUT_DIR
    /\ \E ext \in Extensions :
         /\ call.res.filename = call.arg.v.taskId.v \o <<".", ext>>
         /\ <<call.res.outputPath[Len(call.res.outputPath)]>> =
              Names(call.arg.v.taskId.v \o <<".", ext>>, "")

\* the four statuses, as strings
StatusNames == {<<TASK_STATUSES[i]>> : i \in 1..Len(TASK_STATUSES)}

\* what createStatusResponse is to make of an optional text field
Projected(x) == IF x.t = "string" /\ Trim(x.v) # <<>> THEN JStr(Trim(x.v)) ELSE JNull

\* the non-blank string items of a warnings value, in order
KeptWarnings(x) ==
  IF x.t # "array" THEN <<>>
  ELSE SelectSeq(x.v, LAMBDA item : item.t = "string" /\ Trim(item.v) # <<>>)

\* res is the projection of input with the status shown
ProjectionOf(res, input, status) ==
  /\ IsOk(res)
  /\ res.v.status = JStr(status)
  /\ res.v.outputUrl = Projected(Get(input, "outputUrl"))
  /\ res.v.errorCode = Projected(Get(input, "errorCode"))
  /\ res.v.message = Projected(Get(input, "message"))
  /\ res.v.warnings = JArr(KeptWarnings(Get(input, "warnings")))

\* createStatusResponse was given an object with a non-blank taskId string
StatusCase ==
  /\ call.fn = "createStatusResponse"
  /\ isRecord(call.arg)
  /\ Get(call.arg, "taskId").t = "string"
  /\ Trim(Get(call.arg, "taskId").v) # <<>>

\* C25 as stated: a status that equals one of the four ignoring letter case
\* gives the projection with that status in upper case; every other status
\* fails with INVALID_STATUS_VALUE.
C25_AsStated ==
  StatusCase =>
    IF Get(call.arg, "status").t = "string"
         /\ ToUpperCase(Get(call.arg, "status").v) \in StatusNames
      THEN ProjectionOf(call.res, call.arg, ToUpperCase(Get(call.arg, "status").v))
      ELSE FailsWith(call.res, "INVALID_STATUS_VALUE")

\* C25: createStatusResponse, given an object with a non-blank taskId, fails
\* with INVALID_STRING for a status that is no string and with EMPTY_STRING for
\* a blank one; a status whose trimmed text equals one of the four ignoring
\* letter case gives that status in upper case, with outputUrl, errorCode and
\* message each the trimmed text when given as a non-blank string and null
\* otherwise, and warnings its non-blank string items (none when it is no
\* array); every other status fails with INVALID_STATUS_VALUE.
C25_StatusResponse ==
  StatusCase =>
    IF Get(call.arg, "status").t # "string" THEN FailsWith(call.res, "INVALID_STRING")
    ELSE IF Trim(Get(call.arg, "status").v) = <<>> THEN FailsWith(call.res, "EMPTY_STRING")
    ELSE IF ToUpperCase(Trim(Get(call.arg, "status").v)) \in StatusNames
      THEN ProjectionOf(call.res, call.arg, ToUpperCase(Trim(Get(call.arg, "status").v)))
    ELSE FailsWith(call.res, "INVALID_STATUS_VALUE")

\* a task object with status " queued ", a blank outputUrl and mixed warnings
\* was projected
C25_Witness ==
  /\ StatusCase
  /\ Get(call.arg, "status") = JStr(<<" ", "queued", " ">>)
  /\ Get(call.arg, "outputUrl") = JStr(<<" ">>)
  /\ Get(call.arg, "warnings").t = "array"
  /\ IsOk(call.res)
  /\ call.res.v.status = JStr(<<"QUEUED">>)
  /\ call.res.v.outputUrl = JNull
  /\ call.res.v.warnings = JArr(<<JStr(<<"w">>), JStr(<<" ", "w2">>)>>)

\* the images of a contract in the order of resolution: 0 the reference, k
\* the k-th source
ImagesOf(contract) == [j \in 1..(Len(contract.sources) + 1) |-> j - 1]

\* list is the first n items of whole
FirstOf(list, whole, n) == n <= Len(whole) /\ list = SubSeq(whole, 1, n)

\* C26: a run resolves its images in the order reference, source 0, source 1,
\* ..., one at a time: while it waits for image i it holds exactly the images
\* before i, and it is at the provider (or beyond) only with all of them.  A
\* run that ends because image i failed had resolved exactly the images before
\* i, was never at the provider, rejects, and leaves its task FAILED without
\* outputUrl; a finished run never acts again.
C26_Sequential ==
  [][/\ \A i \in 1..Len(runs') :
          /\ runs'[i].pc = "reference" => runs'[i].resolved = <<>>
          /\ runs'[i].pc = "source" =>
               FirstOf(runs'[i].resolved, ImagesOf(runs'[i].contract), runs'[i].k)
          /\ runs'[i].pc \in {"provider", "sleep", "write"} =>
               runs'[i].resolved = ImagesOf(runs'[i].contract)
          /\ (i <= Len(runs) /\ runs[i].pc = "done") => runs'[i] = runs[i]
     /\ last'.ended.cause \in {"REFERENCE", "SOURCE"} =>
          /\ last'.ended.outcome = "rejected"
          /\ \E i \in 1..Len(runs') :
               /\ EndedIn(i)
               /\ runs'[i].taskId = last'.tid
               /\ FirstOf(last'.ended.resolved, ImagesOf(runs'[i].contract),
                          Len(last'.ended.resolved))
               /\ Len(last'.ended.resolved) <= Len(runs'[i].contract.sources)
               /\ (last'.ended.cause = "REFERENCE") <=> (last'.ended.resolved = <<>>)
               /\ i <= Len(runs) => runs[i].pc \in {"reference", "source"}
          /\ last'.tid \in DOMAIN tasks' =>
               /\ StatusOf(tasks'[last'.tid]) = "FAILED"
               /\ tasks'[last'.tid].outputUrl = JNull]_vars

\* the second source of a task failed to download after the reference and the
\* first source were resolved
C26_Witness ==
  /\ last.ended.cause = "SOURCE"
  /\ last.ended.resolved = <<0, 1>>
  /\ last.tid \in DOMAIN tasks
  /\ StatusOf(tasks[last.tid]) = "FAILED"
  /\ Len(tasks[last.tid].contract.sources) = 2

\* the stages in the order of the algorithm
StageOrder ==
  <<Stage("REFERENCE_PREPROCESS", 20), Stage("SOURCE_FEATURE_EXTRACTION", 45),
    Stage("DIFFUSION_SAMPLING", 75), Stage("OUTPUT_RENDER", 100)>>

\* how many stages a run waiting at pc has reported
ReportedAt(pc) ==
  CASE pc = "start" -> 0
    [] pc = "reference" -> 1
    [] pc = "source" -> 2
    [] pc \in {"provider", "sleep"} -> 3
    [] OTHER -> 4

\* the stage reports among the records a step stored: the record of the run's
\* end, which repeats the progress it found, is not one
ReportsIn(step) ==
  LET n == IF step.ended.outcome = "" THEN Len(step.log) ELSE Len(step.log) - 1
      IsReport(e) == e.view.progress \in Stages
  IN SelectSeq(SubSeq(step.log, 1, n), IsReport)

\* the throw sites of a run up to and including the output extraction
UpToExtraction == {"API_KEY", "REFERENCE", "SOURCE", "FETCH", "NOT_OK", "NON_JSON", "EXTRACT"}

\* C27: the stage reports of a run on its tracked task follow the fixed order
\* REFERENCE_PREPROCESS, SOURCE_FEATURE_EXTRACTION, DIFFUSION_SAMPLING,
\* OUTPUT_RENDER, each step going on where the run stood, so none is repeated;
\* a step that reports OUTPUT_RENDER has extracted the output image, so it does
\* not end with an extraction error; and a task left FAILED by a throw up to
\* and including the extraction does not have OUTPUT_RENDER as progress.
C27_StageOrder ==
  [][/\ \A i \in 1..Len(runs') :
          (i > Len(runs) \/ runs'[i] # runs[i]) =>
            LET before == IF i > Len(runs) THEN 0 ELSE ReportedAt(runs[i].pc)
                reports == ReportsIn(last')
            IN [j \in 1..Len(reports) |-> reports[j].view.progress]
                 = SubSeq(StageOrder, before + 1, before + Len(reports))
     /\ (\E j \in 1..Len(last'.log) :
           last'.log[j].view.progress = Stage("OUTPUT_RENDER", 100))
          => last'.ended.cause # "EXTRACT"
     /\ (/\ last'.ended.cause \in UpToExtraction
         /\ last'.tid \in DOMAIN tasks'
         /\ StatusOf(tasks'[last'.tid]) = "FAILED")
          => tasks'[last'.tid].progress # Stage("OUTPUT_RENDER", 100)]_vars

\* the parts of the first candidate of a response, none when there is no list
FirstParts(resultJson) ==
  LET parts == OptGet(OptGet(OptFirst(OptGet(resultJson, "candidates")), "content"), "parts")
  IN IF parts.t = "array" THEN parts.v ELSE <<>>

\* inline is an inline-data object with non-empty data
HasData(inline) ==
  /\ inline.t = "object"
  /\ "data" \in DOMAIN inline.v
  /\ inline.v.data.t = "string"
  /\ inline.v.data.v # <<>>

\* part carries non-empty inline image data under either name
Carries(part) == HasData(OptGet(part, "inlineData")) \/ HasData(OptGet(part, "inline_data"))

\* the inline-data object of a part that carries data
InlineOf(part) ==
  IF HasData(OptGet(part, "inlineData")) THEN Get(part, "inlineData") ELSE Get(part, "inline_data")

\* the MIME type an inline-data object names, image/png when it names none
MimeOf(inline) ==
  IF "mimeType" \in DOMAIN inline.v THEN inline.v.mimeType.v
  ELSE IF "mime_type" \in DOMAIN inline.v THEN inline.v.mime_type.v
  ELSE <<"image/png">>

\* part has text to show
HasText(part) == OptGet(part, "text").t = "string" /\ OptGet(part, "text").v # <<>>

\* the extension the claim gives a MIME type
ExtensionFor(mimeType) ==
  IF \E i \in 1..Len(mimeType) : mimeType[i] \in {"image/jpeg", "image/jpg"} THEN "jpg"
  ELSE IF \E i \in 1..Len(mimeType) : mimeType[i] = "image/webp" THEN "webp"
  ELSE "png"

\* the first item of parts that passes Test
FirstThat(parts, Test(_)) == Head(SelectSeq(parts, Test))

\* res is the error with this message
Raises(res, message) == ~IsOk(res) /\ res.v.message[1] = message

\* C28: extractOutputImage returns a complete image (data, MIME type and
\* extension) or raises an error.  Without parts in the first candidate it
\* raises the no-candidates error; with parts of which none carries inline
\* image data it raises an error, the text-only error when a part has text;
\* otherwise it returns the data of the first part that carries inline image
\* data, with extension jpg for a jpeg or jpg type, webp for a webp type and
\* png for any other.
C28_Extraction ==
  call.fn = "extractOutputImage" =>
    LET parts == FirstParts(call.arg.v)
        res == call.res
    IN /\ IsOk(res) =>
            /\ res.v.outputBuffer # <<>>
            /\ res.v.outputMimeType # <<>>
            /\ res.v.outputExtension = ExtensionFor(res.v.outputMimeType)
       /\ parts = <<>> => Raises(res, "Gemini returned no candidates/content parts.")
       /\ (parts # <<>> /\ \A j \in 1..Len(parts) : ~Carries(parts[j])) =>
            /\ ~IsOk(res)
            /\ (\E j \in 1..Len(parts) : HasText(parts[j])) =>
                 Raises(res, "Gemini returned text only:")
       /\ (\E j \in 1..Len(parts) : Carries(parts[j])) =>
            /\ IsOk(res)
            /\ res.v.outputBuffer = InlineOf(FirstThat(parts, Carries)).v.data.v

\* C29: whenever some part of the first candidate carries non-empty inline
\* image data under inlineData or under inline_data, extractOutputImage
\* succeeds and returns the data and the MIME type of the first such part,
\* whatever the other field of that part holds.
C29_BothConventions ==
  (call.fn = "extractOutputImage"
     /\ \E j \in 1..Len(FirstParts(call.arg.v)) : Carries(FirstParts(call.arg.v)[j])) =>
    /\ IsOk(call.res)
    /\ call.res.v.outputBuffer = InlineOf(FirstThat(FirstParts(call.arg.v), Carries)).v.data.v
    /\ call.res.v.outputMimeType = MimeOf(InlineOf(FirstThat(FirstParts(call.arg.v), Carries)))

\* C30: in every reachable state every tracked task has a non-null outputUrl
\* exactly when its status is SUCCESS and a non-null errorCode exactly when its
\* status is FAILED, and a SUCCESS task has a non-null workflowGraph.
C30_OutcomeFields ==
  \A t \in DOMAIN tasks :
    /\ (tasks[t].outputUrl # JNull) <=> (StatusOf(tasks[t]) = "SUCCESS")
    /\ (tasks[t].errorCode # JNull) <=> (StatusOf(tasks[t]) = "FAILED")
    /\ StatusOf(tasks[t]) = "SUCCESS" => tasks[t].workflowGraph # JNull

\* a SUCCESS task and a FAILED task are tracked together
C30_Witness ==
  /\ \E t \in DOMAIN tasks : StatusOf(tasks[t]) = "SUCCESS" /\ tasks[t].outputUrl # JNull
  /\ \E t \in DOMAIN tasks : StatusOf(tasks[t]) = "FAILED" /\ tasks[t].errorCode # JNull

\* C31: the only projection with status QUEUED ever emitted is the body of the
\* 202 answer to POST /api/tasks: the step that creates a record leaves it
\* PROCESSING (or further), so no stored record is QUEUED, the body of no GET
\* /api/tasks or GET /api/tasks/:taskId holds a QUEUED task, and no event
\* written to an SSE connection does.
C31_QueuedOnlyIn202 ==
  /\ \A t \in DOMAIN tasks : StatusOf(tasks[t]) # "QUEUED"
  /\ \A v \in last.views : (StatusOf(v) = "QUEUED") <=> (last.code = 202)
  /\ \A c \in Clients : \A k \in 1..Len(sent[c]) : StatusOf(sent[c][k]) # "QUEUED"

\* a POST answered 202 with the QUEUED projection while a connection left over
\* from an evicted task of the same taskId was told of the new record
C31_Witness ==
  /\ last.code = 202
  /\ \E v \in last.views : StatusOf(v) = "QUEUED"
  /\ StatusOf(tasks[last.tid]) = "PROCESSING"
  /\ \E c \in Clients : sent[c] # <<>>

\* C32: a step that works on the task with taskId A (its creation and start, a
\* progress report, its success, its failure, its eviction) leaves the record
\* of every other taskId as it was, neither adding nor removing one, and
\* writes only to connections subscribed to A, only projections of A; a step
\* that works on no task changes no record.
C32_Isolation ==
  [][/\ \A u \in (DOMAIN tasks \cup DOMAIN tasks') \ {last'.tid} :
          /\ u \in DOMAIN tasks
          /\ u \in DOMAIN tasks'
          /\ tasks'[u] = tasks[u]
     /\ \A c \in Clients : \A k \in 1..Len(sent'[c]) :
          /\ conn'[c].taskId = last'.tid
          /\ sent'[c][k].taskId = JStr(last'.tid)]_vars

\* two tasks are PROCESSING, a run of one of them just stored an update, and a
\* connection subscribed to the other one was written nothing
C32_Witness ==
  /\ last.code = 0
  /\ last.log # <<>>
  /\ \A t \in TaskIds : t \in DOMAIN tasks /\ StatusOf(tasks[t]) = "PROCESSING"
  /\ \E c \in Clients :
       /\ conn[c].state = "open"
       /\ conn[c].taskId # last.tid
       /\ conn[c].taskId \in DOMAIN sseClients
       /\ sent[c] = <<>>

\* connection c is subscribed to a taskId whose record was evicted: it is open
\* and no record is stored under its taskId
Orphaned(c) == conn[c].state = "open" /\ conn[c].taskId \notin DOMAIN tasks

\* run i belongs to an evicted record: it is not over and either no record is
\* stored under its taskId or a later run was started for that taskId
Superseded(i) ==
  /\ runs[i].pc # "done"
  /\ \/ runs[i].taskId \notin DOMAIN tasks
     \/ \E j \in (i + 1)..Len(runs) : runs[j].taskId = runs[i].taskId

\* C33: a connection whose record was evicted is written no further status
\* event, also in the step that creates a new task under the same taskId; and
\* a step of the run of an evicted record stores nothing and writes to no
\* connection, also when a new record exists under its taskId.
C33_OwnRecordOnly ==
  [][/\ \A c \in Clients : Orphaned(c) => sent'[c] = <<>>
     /\ \A i \in 1..Len(runs) :
          (Superseded(i) /\ runs'[i] # runs[i]) =>
            /\ tasks' = tasks
            /\ sent' = Quiet
            /\ last'.log = <<>>]_vars

\* C34: once a connection is closed it is in no subscriber set and is written
\* nothing by any later step; closing one connection leaves every other open
\* connection registered, and a connection that stays open is written every
\* update stored under its taskId; the subscriber map holds no empty set.
C34_Unsubscribe ==
  [][/\ \A t \in DOMAIN sseClients' : sseClients'[t] # {}
     /\ \A c \in Clients :
          conn'[c].state = "closed" =>
            /\ \A t \in DOMAIN sseClients' : c \notin sseClients'[t]
            /\ sent'[c] = <<>>
     /\ \A d \in Clients :
          (conn[d].state = "open" /\ conn'[d].state = "open") =>
            /\ conn'[d].taskId = conn[d].taskId
            /\ conn[d].taskId \in DOMAIN sseClients'
            /\ d \in sseClients'[conn[d].taskId]
            /\ sent'[d] = UpdatesOf(conn[d].taskId)
     /\ \A c \in Clients :
          (conn[c].state = "open" /\ conn'[c].state = "closed") =>
            \A d \in Clients \ {c} : conn'[d] = conn[d]]_vars

\* of two connections subscribed to the same task one is closed, and the other
\* was just written an update of the task
C34_Witness ==
  /\ conn[1].state = "closed"
  /\ conn[2].state = "open"
  /\ conn[1].taskId = conn[2].taskId
  /\ sseClients[conn[2].taskId] = {2}
  /\ last.code = 0
  /\ sent[2] # <<>>
  /\ sent[1] = <<>>

=============================================================================
